---- MODULE Spec2Model ----
(***************************************************************************)
(* A model of Krita's transform mask static cache (KisTransformMask,       *)
(* StaticCacheStorage, AccumulatedRectStorage) and of the asynchronous     *)
(* regeneration of that cache, libs/image/kis_transform_mask.cpp.          *)
(*                                                                         *)
(* Threads.  The calls of the public interface run on the owning thread    *)
(* and are one action each.  A regeneration job runs on a scheduler thread *)
(* and is split where the owning thread can interleave with it: the start  *)
(* of recalculateStaticImage, the beginning of the decorateRect call made  *)
(* by updateProjection (which reads the params), the end of that call      *)
(* (setDeviceCacheValid), and the return of recalculateStaticImage.        *)
(*                                                                         *)
(* The module also models KisPaintOpPresetUpdateProxy (the preset's update *)
(* proxy with its signal compressor and its postponement count) and        *)
(* KisImageSignalRouter, libs/image/kis_image_signal_router.cpp.  Each of  *)
(* the three objects has specifications of its own, in which the other two *)
(* stay as constructed.                                                    *)
(***************************************************************************)
EXTENDS Integers, Sequences, FiniteSets, TLC

\* ---------------------------------------------------------------- bounds
\* Params values are 0..MaxParam.
MaxParam == 3
\* Rectangles are the intervals of 0..MaxCoord (one axis) and the empty rect.
MaxCoord == 1
\* Spontaneous jobs waiting in the image's scheduler.
MaxJobs == 1
\* Queued sigInternalForceStaticImageUpdate emissions not yet delivered.
MaxForce == 1
\* The delay of the proxy's updatesCompressor (100 ms), counted in ticks.
DelayTicks == 3
\* Nested postponeSettingsChanges calls.
MaxBlocked == 2
\* The largest value numUpdatesWhileBlocked is let reach.
MaxSuppressed == 3
\* Non-postponed notifySettingsChanged calls counted in one window.
MaxNotify == 3
\* Notifications the router is handed.
MaxEmit == 3
\* The rects handed to changeRect and needRect lie in 0..MaxPixel.
MaxPixel == 3
\* Paint devices a StaticCacheStorage allocates in its life.
MaxDevices == 2

\* ---------------------------------------------------------------- values
\* A null shared pointer (no params).
NULL == -1

ParamsSet == 0..MaxParam

\* KisTransformMaskParamsInterface::isHidden: the odd values are hidden.
isHidden(p) == p % 2 = 1

\* KisTransformMaskParamsInterface::isAffine
isAffine(p) == p % 4 # 3

\* KisTransformMaskParamsInterface::compareTransform: equality by value.
compareTransform(a, b) == a = b

\* KisTransformMaskParamsInterface::translateSrcAndDst: a zero offset keeps
\* the transform, another offset gives another transform of the same kind.
translateSrcAndDst(p, d) ==
    IF d = 0 THEN {p}
    ELSE {q \in ParamsSet : q # p /\ isHidden(q) = isHidden(p)}

\* QRect on one axis: <<left, right>>, empty when right < left.
EmptyRect == <<1, 0>>
Rects == {<<l, r>> : l \in 0..MaxCoord, r \in 0..MaxCoord} \cap
         {rc \in (0..MaxCoord) \X (0..MaxCoord) : rc[1] <= rc[2]}
AllRects == Rects \cup {EmptyRect}
isEmpty(rc) == rc[2] < rc[1]
Min(a, b) == IF a <= b THEN a ELSE b
Max(a, b) == IF a >= b THEN a ELSE b
\* QRect::operator| : the bounding rectangle; an empty operand is ignored.
united(a, b) ==
    IF isEmpty(a) THEN b
    ELSE IF isEmpty(b) THEN a
    ELSE <<Min(a[1], b[1]), Max(a[2], b[2])>>

\* QRect::contains(b) for a non-empty b; an empty b asks for nothing.
contains(a, b) ==
    isEmpty(b) \/ (~isEmpty(a) /\ a[1] <= b[1] /\ b[2] <= a[2])

\* KoColorSpace: two colour spaces that differ.
ColorSpaces == {"RGBA", "GRAYA"}

\* parentLayer->original()->colorSpace() in recalculateStaticImage
originalColorSpace == "RGBA"

\* KisPaintDeviceSP: a null pointer, or the id-th device the storage has
\* allocated, with its colour space.
NoDevice == [id |-> 0, cs |-> "none"]
Devices == [id : 1..MaxDevices, cs : ColorSpaces]

\* The statements of StaticCacheStorage's functions a thread can be at: the
\* locker's constructor, the write of a member, the locker's destructor.
MetadataMembers == {"paramsForStaticImage", "staticCacheValid",
                    "staticCacheIsOverridden"}
StoragePcs == {"idle", "lock", "staticCacheDevice", "unlock"} \cup
              MetadataMembers

\* No call of a writing function of the storage is under way.
WriterIdle == [fn |-> "none", pc |-> "idle", currentParams |-> NULL,
               device |-> FALSE, cs |-> "none"]

\* The calls of the storage's writing functions, each at its first statement.
StorageCalls ==
    [fn : {"setDeviceCacheValid"}, pc : {"lock"}, currentParams : ParamsSet,
     device : {FALSE}, cs : {"none"}] \cup
    [fn : {"overrideStaticCacheDevice"}, pc : {"lock"},
     currentParams : {NULL}, device : BOOLEAN, cs : {"none"}] \cup
    [fn : {"invalidateDeviceCache"}, pc : {"staticCacheValid"},
     currentParams : {NULL}, device : {FALSE}, cs : {"none"}] \cup
    [fn : {"lazyAllocateStaticCache"}, pc : {"lock"},
     currentParams : {NULL}, device : {FALSE}, cs : ColorSpaces]

N_FILTHY == "N_FILTHY"
N_ABOVE_FILTHY == "N_ABOVE_FILTHY"
N_BELOW_FILTHY == "N_BELOW_FILTHY"
PositionToFilthy == {N_FILTHY, N_ABOVE_FILTHY, N_BELOW_FILTHY}

\* What parent() is: no layer; a layer that is in no image; a layer of the
\* image; a layer of the image whose projection is its paint device (the
\* layer has no visible mask).
ParentStates == {"NoParent", "NoImage", "InImage", "InImageNoProjection"}

\* No call of isCacheValid has returned yet.
NoResult == <<>>

\* The calls whose argument and result the rect specification records.
RectCalls == {"changeRect", "needRect", "needRect(changeRect)"}

\* What decorateRect fills dst with: nothing; the source transformed for the
\* rect by the worker; the source transformed into the static cache and the
\* cache copied; the rect copied from the static cache.
Renderings == {"nothing", "runPartialDst", "transformDevice",
               "copyAreaOptimized"}

\* The signals of KisPaintOpPresetUpdateProxy.
sigSettingsChangedUncompressedEarlyWarning ==
    "sigSettingsChangedUncompressedEarlyWarning"
sigSettingsChangedUncompressed == "sigSettingsChangedUncompressed"
sigSettingsChanged == "sigSettingsChanged"
ProxySignals == {sigSettingsChangedUncompressedEarlyWarning,
                 sigSettingsChangedUncompressed, sigSettingsChanged}

\* updatesCompressor's timer is not running.
TimerIdle == -1

\* The steps of the proxy.
ProxyCalls == {"none", "notifySettingsChanged", "postponeSettingsChanges",
               "unpostponeSettingsChanges", "tick",
               "slotDeliverSettingsChanged"}

\* KisImageSignalTypeEnum
LayersChangedSignal == "LayersChangedSignal"
ModifiedWithoutUndoSignal == "ModifiedWithoutUndoSignal"
SizeChangedSignal == "SizeChangedSignal"
ProfileChangedSignal == "ProfileChangedSignal"
ColorSpaceChangedSignal == "ColorSpaceChangedSignal"
ResolutionChangedSignal == "ResolutionChangedSignal"
NodeReselectionRequestSignal == "NodeReselectionRequestSignal"
PlainSignalIds == {LayersChangedSignal, ModifiedWithoutUndoSignal,
                   SizeChangedSignal, ProfileChangedSignal,
                   ColorSpaceChangedSignal, ResolutionChangedSignal}

\* KisImageSignalType: the id and, for a reselection request, whether
\* newActiveNode is not null and whether newSelectedNodes is not empty.
SignalTypes ==
    [id : PlainSignalIds, node : {FALSE}, nodes : {FALSE}] \cup
    [id : {NodeReselectionRequestSignal}, node : BOOLEAN, nodes : BOOLEAN]

\* The thread of a call: the one the router and its image live in, or
\* another one.
Threads == {"owner", "other"}

\* What the router makes the image do: the call of invalidateAllFrames and
\* the image's signals the router's signals are connected to.
invalidateAllFrames == "invalidateAllFrames"
sigLayersChangedAsync == "sigLayersChangedAsync"
sigImageModifiedWithoutUndo == "sigImageModifiedWithoutUndo"
sigSizeChanged == "sigSizeChanged"
sigProfileChanged == "sigProfileChanged"
sigColorSpaceChanged == "sigColorSpaceChanged"
sigResolutionChanged == "sigResolutionChanged"
sigRequestNodeReselection == "sigRequestNodeReselection"
ImageSignals == {sigLayersChangedAsync, sigImageModifiedWithoutUndo,
                 sigSizeChanged, sigProfileChanged, sigColorSpaceChanged,
                 sigResolutionChanged, sigRequestNodeReselection}
ImageCalls == ImageSignals \cup {invalidateAllFrames}

\* The calls waiting in the owning thread's event queue: slotNotification
\* for a queued sigNotification, or the image's signal for a router signal
\* connected with Qt::QueuedConnection; n is the number of the notification.
QueuedCalls ==
    [call : {"slotNotification"}, type : SignalTypes, n : 1..MaxEmit] \cup
    [call : {"imageSignal"}, signal : {sigProfileChanged,
                                       sigColorSpaceChanged},
     n : 1..MaxEmit]

\* ---------------------------------------------------------------- state
VARIABLES
    params,                     \* m_d->paramsHolder (what bakeIntoParams returns)
    staticCacheValid,           \* StaticCacheStorage
    staticCacheIsOverridden,
    paramsForStaticImage,
    staticCacheDevice,          \* NoDevice: not allocated yet
    recalculatingStaticImage,
    updateSignalCompressor,     \* TRUE: the timer is running (isActive())
    forcedStaticUpdateExtraUpdateRect,  \* AccumulatedRectStorage::m_rect
    forceSignals,               \* queued sigInternalForceStaticImageUpdate
    spontaneousJobs,            \* jobs submitted with addSpontaneousJob
    jobPc,                      \* where the running job is
    jobParams,                  \* decorateRect's local `params` in the job
    parentState,                \* parent() and its image, see ParentStates
    imageLocked,                \* image->locked()
    externalFrameActive,        \* defaultBounds()->externalFrameActive()
    envQuiet,                   \* the callers have stopped calling
    queryResult,                \* what the last isCacheValid call returned
    \* KisPaintOpPresetUpdateProxy
    updatesBlocked,             \* m_d->updatesBlocked
    numUpdatesWhileBlocked,     \* m_d->numUpdatesWhileBlocked
    updatesCompressor,          \* ticks left on the timer, or TimerIdle
    lastCall,                   \* the proxy's last step
    emitted,                    \* the signals the last step emitted, in order
    sinceNotify,                \* ticks since the last notify that emitted
    windowNotifies,             \* such notifies since the timer was started
    \* KisImageSignalRouter
    imageAlive,                 \* m_image.toStrongRef() is not null
    eventQueue,                 \* the owning thread's queued calls
    delivered,                  \* what the image was made to do and emit
    emitCount,                  \* notifications handed to the router so far
    \* StaticCacheStorage statement by statement
    m_lock,                     \* the QReadWriteLock
    writer,                     \* the call of a writing function under way
    reader,                     \* the reading function a thread is inside
    \* the parent layer and the mask's connections
    projection,                 \* pixels of parentLayer->projection() with content
    parentChangeRect,           \* parentLayer->changeRect(parentLayer->exactBounds())
    sigInternalForceConnected   \* sigInternalForceStaticImageUpdate has its slot

cache == <<staticCacheValid, staticCacheIsOverridden, paramsForStaticImage,
           staticCacheDevice>>
job == <<jobPc, jobParams>>
env == <<parentState, imageLocked, externalFrameActive, envQuiet, queryResult>>
proxy == <<updatesBlocked, numUpdatesWhileBlocked, updatesCompressor,
           lastCall, emitted, sinceNotify, windowNotifies>>
router == <<imageAlive, eventQueue, delivered, emitCount>>
storage == <<m_lock, writer, reader>>
layer == <<projection, parentChangeRect>>
\* The mask and its image, but for envQuiet.
mask == <<params, cache, recalculatingStaticImage, updateSignalCompressor,
          forcedStaticUpdateExtraUpdateRect, forceSignals, spontaneousJobs,
          job, parentState, imageLocked, externalFrameActive, queryResult,
          layer, sigInternalForceConnected>>
vars == <<params, cache, recalculatingStaticImage,
          updateSignalCompressor, forcedStaticUpdateExtraUpdateRect,
          forceSignals, spontaneousJobs, job, env, proxy, router, storage,
          layer, sigInternalForceConnected>>

TypeOK ==
    /\ params \in ParamsSet
    /\ staticCacheValid \in BOOLEAN
    /\ staticCacheIsOverridden \in BOOLEAN
    /\ paramsForStaticImage \in ParamsSet \cup {NULL}
    /\ staticCacheDevice \in {NoDevice} \cup Devices
    /\ recalculatingStaticImage \in BOOLEAN
    /\ updateSignalCompressor \in BOOLEAN
    /\ forcedStaticUpdateExtraUpdateRect \in AllRects
    /\ forceSignals \in 0..MaxForce
    /\ spontaneousJobs \in Seq(AllRects) /\ Len(spontaneousJobs) <= MaxJobs
    /\ jobPc \in {"idle", "projecting", "transforming", "finishing"}
    /\ jobParams \in ParamsSet \cup {NULL}
    /\ parentState \in ParentStates
    /\ imageLocked \in BOOLEAN
    /\ externalFrameActive \in BOOLEAN
    /\ envQuiet \in BOOLEAN
    /\ \/ queryResult = NoResult
       \/ Len(queryResult) = 2 /\ queryResult \in ParamsSet \X BOOLEAN
       \/ Len(queryResult) = 4 /\ queryResult[1] \in RectCalls
                                /\ queryResult[3] \in PositionToFilthy
       \/ Len(queryResult) = 4 /\ queryResult[1] = "decorateRect"
                                /\ queryResult[2] \in PositionToFilthy
                                /\ queryResult[3] \in BOOLEAN
                                /\ queryResult[4] \in Renderings
    /\ updatesBlocked \in 0..MaxBlocked
    /\ numUpdatesWhileBlocked \in 0..MaxSuppressed
    /\ updatesCompressor \in {TimerIdle} \cup (0..DelayTicks)
    /\ lastCall \in ProxyCalls
    /\ emitted \in Seq(ProxySignals)
    /\ sinceNotify \in 0..DelayTicks
    /\ windowNotifies \in 0..MaxNotify
    /\ imageAlive \in BOOLEAN
    /\ eventQueue \in Seq(QueuedCalls)
    /\ delivered \in Seq(ImageCalls \X (1..MaxEmit))
    /\ emitCount \in 0..MaxEmit
    /\ m_lock \in {"unlocked", "read", "write"}
    /\ writer \in {WriterIdle} \cup
                  {[c EXCEPT !.pc = pc] : c \in StorageCalls, pc \in StoragePcs}
    /\ reader \in {"idle", "isCacheValid", "isCacheOverridden"}
    /\ projection \subseteq 0..MaxCoord
    /\ parentChangeRect \in AllRects
    /\ sigInternalForceConnected \in BOOLEAN

\* KisPaintOpPresetUpdateProxy::KisPaintOpPresetUpdateProxy
ProxyInit ==
    /\ updatesBlocked = 0
    /\ numUpdatesWhileBlocked = 0
    /\ updatesCompressor = TimerIdle
    /\ lastCall = "none"
    /\ emitted = <<>>
    /\ sinceNotify = 0
    /\ windowNotifies = 0

\* KisImageSignalRouter::KisImageSignalRouter(image)
RouterInit ==
    /\ imageAlive = TRUE
    /\ eventQueue = <<>>
    /\ delivered = <<>>
    /\ emitCount = 0

\* StaticCacheStorage as constructed, no thread inside.
StorageInit ==
    /\ m_lock = "unlocked"
    /\ writer = WriterIdle
    /\ reader = "idle"

\* A parent layer without content yet, its projection empty.
LayerInit ==
    /\ projection = {}
    /\ parentChangeRect = EmptyRect

\* KisTransformMask::KisTransformMask(image, name): a mask not yet in a stack;
\* the proxy and the router as constructed.
Init ==
    /\ params = 0
    /\ staticCacheValid = FALSE
    /\ staticCacheIsOverridden = FALSE
    /\ paramsForStaticImage = NULL
    /\ staticCacheDevice = NoDevice
    /\ recalculatingStaticImage = FALSE
    /\ updateSignalCompressor = FALSE
    /\ forcedStaticUpdateExtraUpdateRect = EmptyRect
    /\ forceSignals = 0
    /\ spontaneousJobs = <<>>
    /\ jobPc = "idle"
    /\ jobParams = NULL
    /\ parentState = "NoParent"
    /\ imageLocked = FALSE
    /\ externalFrameActive = FALSE
    /\ envQuiet = FALSE
    /\ queryResult = NoResult
    /\ ProxyInit
    /\ RouterInit
    /\ StorageInit
    /\ LayerInit
    /\ sigInternalForceConnected = TRUE

\* ------------------------------------------------- StaticCacheStorage
\* isCacheValid without the case of a cache that names no params.
isCacheValid_needsParams(currentParams) ==
    staticCacheValid /\ paramsForStaticImage = currentParams

\* StaticCacheStorage::isCacheValid
isCacheValid(currentParams) ==
    staticCacheValid /\
        (paramsForStaticImage = NULL \/
         compareTransform(paramsForStaticImage, currentParams))

\* StaticCacheStorage::isCacheOverridden
isCacheOverridden == staticCacheIsOverridden

\* KisTransformMask::staticImageCacheIsValid
staticImageCacheIsValid == isCacheValid(params)

\* KisTransformMask::hasPendingTimedUpdates
hasPendingTimedUpdates == updateSignalCompressor

\* StaticCacheStorage::setDeviceCacheValid
setDeviceCacheValid(currentParams) ==
    /\ paramsForStaticImage' = currentParams
    /\ staticCacheValid' = TRUE
    /\ UNCHANGED <<staticCacheIsOverridden, staticCacheDevice>>

\* StaticCacheStorage::invalidateDeviceCache takes no lock.  Its two writes
\* can interleave with the two writes setDeviceCacheValid makes (under the
\* write lock) at the end of the running job's decorateRect.  The job's
\* writes fall either after both (the job is left where it is), or between or
\* around them in one of the orders that leave valid = true with no params:
\* `torn`, and the job has then passed setDeviceCacheValid.
TornChoices == IF jobPc = "transforming" THEN BOOLEAN ELSE {FALSE}

invalidateDeviceCache(torn) ==
    /\ staticCacheValid' = torn
    /\ paramsForStaticImage' = NULL
    /\ UNCHANGED <<staticCacheIsOverridden, staticCacheDevice>>
    /\ jobPc' = IF torn THEN "finishing" ELSE jobPc
    /\ jobParams' = IF torn THEN NULL ELSE jobParams

\* lazyAllocateStaticCache that does not look at the colour space.
lazyAllocateStaticCache_keepsDevice(cs) ==
    /\ staticCacheDevice' =
           IF staticCacheDevice = NoDevice
           THEN [id |-> staticCacheDevice.id + 1, cs |-> cs]
           ELSE staticCacheDevice
    /\ UNCHANGED <<staticCacheValid, staticCacheIsOverridden,
                   paramsForStaticImage>>

\* lazyAllocateStaticCache that allocates a device in every call.
lazyAllocateStaticCache_alwaysAllocates(cs) ==
    /\ staticCacheDevice' = [id |-> staticCacheDevice.id + 1, cs |-> cs]
    /\ UNCHANGED <<staticCacheValid, staticCacheIsOverridden,
                   paramsForStaticImage>>

\* StaticCacheStorage::lazyAllocateStaticCache
lazyAllocateStaticCache(cs) ==
    /\ staticCacheDevice' =
           IF staticCacheDevice = NoDevice \/ staticCacheDevice.cs # cs
           THEN [id |-> staticCacheDevice.id + 1, cs |-> cs]
           ELSE staticCacheDevice
    /\ UNCHANGED <<staticCacheValid, staticCacheIsOverridden,
                   paramsForStaticImage>>

\* parentLayer && parentLayer->image()
parentLayerHasImage == parentState \in {"InImage", "InImageNoProjection"}

\* ------------------------------------------------- owning thread
\* startAsyncRegenerationJob that gives up on a locked image.
startAsyncRegenerationJob_noRetry(active) ==
    IF ~parentLayerHasImage \/ imageLocked
    THEN /\ updateSignalCompressor' = active
         /\ UNCHANGED <<forcedStaticUpdateExtraUpdateRect, spontaneousJobs>>
    ELSE /\ Len(spontaneousJobs) < MaxJobs
         /\ updateSignalCompressor' = active
         /\ spontaneousJobs' =
                Append(spontaneousJobs, forcedStaticUpdateExtraUpdateRect)
         /\ forcedStaticUpdateExtraUpdateRect' = EmptyRect

\* startAsyncRegenerationJob that takes the accumulated rect before it
\* looks at the parent.
startAsyncRegenerationJob_takesRectWithoutParent(active) ==
    IF ~parentLayerHasImage
    THEN /\ updateSignalCompressor' = active
         /\ forcedStaticUpdateExtraUpdateRect' = EmptyRect
         /\ UNCHANGED spontaneousJobs
    ELSE IF imageLocked
    THEN /\ updateSignalCompressor' = TRUE
         /\ UNCHANGED <<forcedStaticUpdateExtraUpdateRect, spontaneousJobs>>
    ELSE /\ Len(spontaneousJobs) < MaxJobs
         /\ updateSignalCompressor' = active
         /\ spontaneousJobs' =
                Append(spontaneousJobs, forcedStaticUpdateExtraUpdateRect)
         /\ forcedStaticUpdateExtraUpdateRect' = EmptyRect

\* startAsyncRegenerationJob that takes the accumulated rect before it
\* looks at the image's lock.
startAsyncRegenerationJob_takesRectFirst(active) ==
    IF ~parentLayerHasImage
    THEN /\ updateSignalCompressor' = active
         /\ UNCHANGED <<forcedStaticUpdateExtraUpdateRect, spontaneousJobs>>
    ELSE IF imageLocked
    THEN /\ updateSignalCompressor' = TRUE
         /\ forcedStaticUpdateExtraUpdateRect' = EmptyRect
         /\ UNCHANGED spontaneousJobs
    ELSE /\ Len(spontaneousJobs) < MaxJobs
         /\ updateSignalCompressor' = active
         /\ spontaneousJobs' =
                Append(spontaneousJobs, forcedStaticUpdateExtraUpdateRect)
         /\ forcedStaticUpdateExtraUpdateRect' = EmptyRect

\* KisTransformMask::startAsyncRegenerationJob; `active` is what the
\* compressor is when the function is entered.
startAsyncRegenerationJob(active) ==
    IF ~parentLayerHasImage
    THEN /\ updateSignalCompressor' = active
         /\ UNCHANGED <<forcedStaticUpdateExtraUpdateRect, spontaneousJobs>>
    ELSE IF imageLocked
    THEN /\ updateSignalCompressor' = TRUE
         /\ UNCHANGED <<forcedStaticUpdateExtraUpdateRect, spontaneousJobs>>
    ELSE /\ Len(spontaneousJobs) < MaxJobs
         /\ updateSignalCompressor' = active
         /\ spontaneousJobs' =
                Append(spontaneousJobs, forcedStaticUpdateExtraUpdateRect)
         /\ forcedStaticUpdateExtraUpdateRect' = EmptyRect

\* KisTransformMask::forceStartAsyncRegenerationJob
forceStartAsyncRegenerationJob(torn) ==
    /\ invalidateDeviceCache(torn)
    /\ startAsyncRegenerationJob(FALSE)

\* setTransformParams without its call of invalidateDeviceCache.
setTransformParams_keepsCache(p, torn) ==
    /\ params' = IF p = NULL THEN params ELSE p
    /\ updateSignalCompressor' = TRUE
    /\ UNCHANGED <<cache, job>>

\* setTransformParams without m_d->updateSignalCompressor.start().
setTransformParams_doesNotArm(p, torn) ==
    /\ params' = IF p = NULL THEN params ELSE p
    /\ invalidateDeviceCache(torn)
    /\ UNCHANGED updateSignalCompressor

\* KisTransformMask::setTransformParams (and setTransformParamsWithUndo,
\* which returns early on null params).
setTransformParams(p, torn) ==
    /\ params' = IF p = NULL THEN params ELSE p
    /\ invalidateDeviceCache(torn)
    /\ updateSignalCompressor' = TRUE

SetTransformParams ==
    /\ ~envQuiet
    /\ \E p \in ParamsSet \cup {NULL}, torn \in TornChoices :
           setTransformParams(p, torn)
    /\ UNCHANGED <<recalculatingStaticImage,
                   forcedStaticUpdateExtraUpdateRect, forceSignals,
                   spontaneousJobs, env, proxy, router, storage,
                   layer, sigInternalForceConnected>>

\* KisTransformMask::setX.  m_d->offset is not part of the state: dx is
\* x - this->x(), zero when the call does not move the mask.
SetX ==
    /\ ~envQuiet
    /\ \E dx \in {0, 1}, torn \in TornChoices :
           \E p \in translateSrcAndDst(params, dx) :
               setTransformParams(p, torn)
    /\ UNCHANGED <<recalculatingStaticImage,
                   forcedStaticUpdateExtraUpdateRect, forceSignals,
                   spontaneousJobs, env, proxy, router, storage,
                   layer, sigInternalForceConnected>>

\* KisTransformMask::setY, with dy = y - this->y().
SetY ==
    /\ ~envQuiet
    /\ \E dy \in {0, 1}, torn \in TornChoices :
           \E p \in translateSrcAndDst(params, dy) :
               setTransformParams(p, torn)
    /\ UNCHANGED <<recalculatingStaticImage,
                   forcedStaticUpdateExtraUpdateRect, forceSignals,
                   spontaneousJobs, env, proxy, router, storage,
                   layer, sigInternalForceConnected>>

\* overrideStaticCacheDevice that keeps the params the cache was valid for.
overrideStaticCacheDevice_keepsParams(device) ==
    IF staticCacheDevice = NoDevice
    THEN UNCHANGED cache
    ELSE /\ staticCacheValid' = device
         /\ staticCacheIsOverridden' = device
         /\ UNCHANGED <<paramsForStaticImage, staticCacheDevice>>

\* KisTransformMask::overrideStaticCacheDevice and
\* StaticCacheStorage::overrideStaticCacheDevice; device = FALSE is null.
overrideStaticCacheDevice(device) ==
    IF staticCacheDevice = NoDevice
    THEN UNCHANGED cache
    ELSE /\ paramsForStaticImage' = NULL
         /\ staticCacheValid' = device
         /\ staticCacheIsOverridden' = device
         /\ UNCHANGED staticCacheDevice

OverrideStaticCacheDevice ==
    /\ ~envQuiet
    /\ \E device \in BOOLEAN : overrideStaticCacheDevice(device)
    /\ UNCHANGED <<params, recalculatingStaticImage,
                   updateSignalCompressor, forcedStaticUpdateExtraUpdateRect,
                   forceSignals, spontaneousJobs, job, env, proxy, router, storage,
                   layer, sigInternalForceConnected>>

\* KisThreadSafeSignalCompressor's timeout() -> slotDelayedStaticUpdate
SlotDelayedStaticUpdate ==
    /\ updateSignalCompressor
    /\ startAsyncRegenerationJob(FALSE)
    /\ UNCHANGED <<params, cache, recalculatingStaticImage,
                   forceSignals, job, env, proxy, router, storage,
                   layer, sigInternalForceConnected>>

\* forceUpdateTimedNode that starts a regeneration in every call.
ForceUpdateTimedNode_alwaysForces ==
    /\ ~envQuiet
    /\ \E torn \in TornChoices : forceStartAsyncRegenerationJob(torn)
    /\ UNCHANGED <<params, recalculatingStaticImage,
                   forceSignals, env, proxy, router, storage,
                   layer, sigInternalForceConnected>>

\* KisTransformMask::forceUpdateTimedNode
ForceUpdateTimedNode ==
    /\ ~envQuiet
    /\ IF hasPendingTimedUpdates \/ ~isCacheValid(params)
       THEN \E torn \in TornChoices : forceStartAsyncRegenerationJob(torn)
       ELSE UNCHANGED <<cache, job, updateSignalCompressor,
                        forcedStaticUpdateExtraUpdateRect, spontaneousJobs>>
    /\ UNCHANGED <<params, recalculatingStaticImage,
                   forceSignals, env, proxy, router, storage,
                   layer, sigInternalForceConnected>>

\* threadSafeForceStaticImageUpdate whose addRect stores the new rect in
\* place of the accumulated one.
threadSafeForceStaticImageUpdate_overwrites(extraUpdateRect) ==
    /\ forceSignals < MaxForce
    /\ forcedStaticUpdateExtraUpdateRect' =
           IF ~isEmpty(extraUpdateRect)
           THEN extraUpdateRect
           ELSE forcedStaticUpdateExtraUpdateRect
    /\ forceSignals' = IF sigInternalForceConnected
                       THEN forceSignals + 1
                       ELSE forceSignals
    /\ UNCHANGED <<params, cache, recalculatingStaticImage,
                   updateSignalCompressor, spontaneousJobs, job, env, proxy, router, storage,
                   layer, sigInternalForceConnected>>

\* KisTransformMask::threadSafeForceStaticImageUpdate(extraUpdateRect), from
\* any thread; the signal it emits is delivered later, on the owning thread,
\* to the slot it is connected to, if any.
threadSafeForceStaticImageUpdate(extraUpdateRect) ==
    /\ forceSignals < MaxForce
    /\ forcedStaticUpdateExtraUpdateRect' =
           IF ~isEmpty(extraUpdateRect)
           THEN united(forcedStaticUpdateExtraUpdateRect, extraUpdateRect)
           ELSE forcedStaticUpdateExtraUpdateRect
    /\ forceSignals' = IF sigInternalForceConnected
                       THEN forceSignals + 1
                       ELSE forceSignals
    /\ UNCHANGED <<params, cache, recalculatingStaticImage,
                   updateSignalCompressor, spontaneousJobs, job, env, proxy, router, storage,
                   layer, sigInternalForceConnected>>

ThreadSafeForceStaticImageUpdateRect ==
    /\ ~envQuiet
    /\ \E extraUpdateRect \in AllRects :
           threadSafeForceStaticImageUpdate(extraUpdateRect)

\* KisTransformMask::threadSafeForceStaticImageUpdate()
ThreadSafeForceStaticImageUpdate ==
    /\ ~envQuiet
    /\ threadSafeForceStaticImageUpdate(EmptyRect)

\* KisTransformMask::slotInternalForceStaticImageUpdate
SlotInternalForceStaticImageUpdate ==
    /\ forceSignals > 0
    /\ forceSignals' = forceSignals - 1
    /\ \E torn \in TornChoices : forceStartAsyncRegenerationJob(torn)
    /\ UNCHANGED <<params, recalculatingStaticImage, env, proxy, router, storage,
                   layer, sigInternalForceConnected>>

\* The test of decorateRect without the look at an overridden cache.
decorateRectTriggersUpdate_ignoresOverride(maskPos, noTransformMaskUpdates) ==
    /\ ~recalculatingStaticImage
    /\ (maskPos = N_FILTHY \/ maskPos = N_ABOVE_FILTHY \/
        ~isCacheValid(params))
    /\ ~noTransformMaskUpdates

\* The test of decorateRect without the flag of a running regeneration.
decorateRectTriggersUpdate_ignoresRecalculating(maskPos, noTransformMaskUpdates) ==
    /\ ~isCacheOverridden
    /\ (maskPos = N_FILTHY \/ maskPos = N_ABOVE_FILTHY \/
        ~isCacheValid(params))
    /\ ~noTransformMaskUpdates

\* The test of decorateRect without the flag NoTransformMaskUpdates.
decorateRectTriggersUpdate_ignoresFlags(maskPos, noTransformMaskUpdates) ==
    /\ ~isCacheOverridden
    /\ ~recalculatingStaticImage
    /\ (maskPos = N_FILTHY \/ maskPos = N_ABOVE_FILTHY \/
        ~isCacheValid(params))

\* KisTransformMask::decorateRect: the test that makes a render pass ask
\* for a new static image.
decorateRectTriggersUpdate(maskPos, noTransformMaskUpdates) ==
    /\ ~isCacheOverridden
    /\ ~recalculatingStaticImage
    /\ (maskPos = N_FILTHY \/ maskPos = N_ABOVE_FILTHY \/
        ~isCacheValid(params))
    /\ ~noTransformMaskUpdates

\* KisTransformMask::decorateRect: what it does to the cache and to the
\* compressor.
decorateRect(maskPos, noTransformMaskUpdates) ==
    IF isHidden(params) \/ externalFrameActive
    THEN UNCHANGED <<cache, job, updateSignalCompressor>>
    ELSE IF decorateRectTriggersUpdate(maskPos, noTransformMaskUpdates)
    THEN /\ invalidateDeviceCache(FALSE)
         /\ updateSignalCompressor' = TRUE
    ELSE IF recalculatingStaticImage
    THEN /\ setDeviceCacheValid(params)
         /\ UNCHANGED <<job, updateSignalCompressor>>
    ELSE UNCHANGED <<cache, job, updateSignalCompressor>>

\* KisTransformMask::decorateRect: what it fills dst with.  The cache it
\* looks at is the cache after the invalidation it may have made itself.
decorateRectRenders(maskPos, noTransformMaskUpdates) ==
    LET valid == isCacheValid(params) /\
                 ~decorateRectTriggersUpdate(maskPos, noTransformMaskUpdates)
    IN  IF isHidden(params) THEN "nothing"
        ELSE IF externalFrameActive
        THEN IF isAffine(params) THEN "runPartialDst" ELSE "nothing"
        ELSE IF recalculatingStaticImage THEN "transformDevice"
        ELSE IF isAffine(params) /\ ~valid THEN "runPartialDst"
        ELSE IF valid THEN "copyAreaOptimized"
        ELSE "nothing"

\* KisTransformMask::decorateRect called by a render pass of the scheduler.
\* Update jobs do not run beside the exclusive regeneration job.
DecorateRect ==
    /\ ~envQuiet
    /\ jobPc = "idle"
    /\ \E maskPos \in PositionToFilthy, noTransformMaskUpdates \in BOOLEAN :
         decorateRect(maskPos, noTransformMaskUpdates)
    /\ UNCHANGED <<params, recalculatingStaticImage,
                   forcedStaticUpdateExtraUpdateRect, forceSignals,
                   spontaneousJobs, env, proxy, router, storage,
                   layer, sigInternalForceConnected>>

\* kisGrowRect(rect, 1)
kisGrowRect(rc, d) == <<rc[1] - d, rc[2] + d>>

\* KisAlgebra2D::blowRect(rect, coeff) with m_d->offBoundsReadArea = 0.5: the
\* rect grown by half its width on both sides.
blowRect(rc) ==
    LET w == (rc[2] - rc[1] + 1) \div 2 IN <<rc[1] - w, rc[2] + w>>

\* parent(): changeRect and needRect only ask whether there is one.
parentNode == parentState # "NoParent"

\* parentNode->original()->defaultBounds()->bounds(), or QRect(0,0,777,777)
parentBounds == IF parentNode THEN <<0, MaxPixel>> ELSE <<0, 776>>

\* QRect::operator& : the common part of two rects.
intersected(a, b) ==
    IF isEmpty(a) \/ isEmpty(b) \/ Max(a[1], b[1]) > Min(a[2], b[2])
    THEN EmptyRect
    ELSE <<Max(a[1], b[1]), Min(a[2], b[2])>>

\* The pixels of a rect.
pixelsOf(rc) == {x \in 0..MaxCoord : rc[1] <= x /\ x <= rc[2]}

\* recalculateStaticImage: requestedRect after `requestedRect &= limitingRect`
requestedRect == intersected(parentChangeRect, blowRect(parentBounds))

\* A clear that spares what lies outside the requested rect.
projectionClear_insideRequestedRect ==
    projection' = projection \ pixelsOf(requestedRect)

\* recalculateStaticImage: parentLayer->projection()->clear()
projectionClear ==
    projection' = {}

\* recalculateStaticImage: parentLayer->updateProjection(requestedRect, ...)
\* as far as the projection's content goes: the requested rect is rendered.
updateProjection ==
    projection' = projection \cup pixelsOf(requestedRect)

\* ------------------------------------------------- the regeneration job
\* KisRecalculateTransformMaskJob::run up to the call of updateProjection in
\* KisTransformMask::recalculateStaticImage.  A mask that has left the stack,
\* or whose parent's projection is the parent's paint device, makes the job
\* a no-op.
JobStart ==
    /\ jobPc = "idle"
    /\ spontaneousJobs # <<>>
    /\ spontaneousJobs' = Tail(spontaneousJobs)
    /\ IF parentState \in {"NoParent", "InImageNoProjection"}
       THEN UNCHANGED <<cache, recalculatingStaticImage, job, projection>>
       ELSE /\ lazyAllocateStaticCache(originalColorSpace)
            /\ recalculatingStaticImage' = TRUE
            /\ projectionClear
            /\ jobPc' = "projecting"
            /\ UNCHANGED jobParams
    /\ UNCHANGED <<params, updateSignalCompressor,
                   forcedStaticUpdateExtraUpdateRect, forceSignals, env, proxy, router, storage,
                   parentChangeRect, sigInternalForceConnected>>

\* updateProjection(requestedRect, this, NoTransformMaskUpdates) calls
\* decorateRect, which reads the params and, unless they are hidden or an
\* external frame is active, transforms the source into the static cache.
JobDecorateRectBegin ==
    /\ jobPc = "projecting"
    /\ IF isHidden(params) \/ externalFrameActive
       THEN /\ jobPc' = "finishing"
            /\ UNCHANGED jobParams
       ELSE IF recalculatingStaticImage
       THEN /\ jobPc' = "transforming"
            /\ jobParams' = params
       ELSE /\ jobPc' = "finishing"
            /\ UNCHANGED jobParams
    /\ UNCHANGED <<params, cache, recalculatingStaticImage,
                   updateSignalCompressor, forcedStaticUpdateExtraUpdateRect,
                   forceSignals, spontaneousJobs, env, proxy, router, storage,
                   layer, sigInternalForceConnected>>

\* decorateRect in the job: m_d->staticCache.setDeviceCacheValid(params)
JobDecorateRectEnd ==
    /\ jobPc = "transforming"
    /\ setDeviceCacheValid(jobParams)
    /\ jobPc' = "finishing"
    /\ jobParams' = NULL
    /\ UNCHANGED <<params, recalculatingStaticImage,
                   updateSignalCompressor, forcedStaticUpdateExtraUpdateRect,
                   forceSignals, spontaneousJobs, env, proxy, router, storage,
                   layer, sigInternalForceConnected>>

\* updateProjection has rendered the requested rect and
\* recalculateStaticImage returns.
JobFinish ==
    /\ jobPc = "finishing"
    /\ updateProjection
    /\ recalculatingStaticImage' = FALSE
    /\ jobPc' = "idle"
    /\ UNCHANGED <<params, cache, jobParams,
                   updateSignalCompressor, forcedStaticUpdateExtraUpdateRect,
                   forceSignals, spontaneousJobs, env, proxy, router, storage,
                   parentChangeRect, sigInternalForceConnected>>

\* ------------------------------------------------- the mask's environment
\* The mask is added to, moved in or removed from a layer stack.
SetParent ==
    /\ ~envQuiet
    /\ \E s \in ParentStates :
           s # parentState /\ parentState' = s
    /\ UNCHANGED <<params, cache, recalculatingStaticImage,
                   updateSignalCompressor, forcedStaticUpdateExtraUpdateRect,
                   forceSignals, spontaneousJobs, job, imageLocked,
                   externalFrameActive, envQuiet, queryResult, proxy, router, storage,
                   layer, sigInternalForceConnected>>

LockImage ==
    /\ ~envQuiet
    /\ ~imageLocked
    /\ imageLocked' = TRUE
    /\ UNCHANGED <<params, cache, recalculatingStaticImage,
                   updateSignalCompressor, forcedStaticUpdateExtraUpdateRect,
                   forceSignals, spontaneousJobs, job, parentState,
                   externalFrameActive, envQuiet, queryResult, proxy, router, storage,
                   layer, sigInternalForceConnected>>

UnlockImage ==
    /\ imageLocked
    /\ imageLocked' = FALSE
    /\ UNCHANGED <<params, cache, recalculatingStaticImage,
                   updateSignalCompressor, forcedStaticUpdateExtraUpdateRect,
                   forceSignals, spontaneousJobs, job, parentState,
                   externalFrameActive, envQuiet, queryResult, proxy, router, storage,
                   layer, sigInternalForceConnected>>

\* An animation frame starts or stops being rendered.
SetExternalFrameActive ==
    /\ ~envQuiet
    /\ externalFrameActive' = ~externalFrameActive
    /\ UNCHANGED <<params, cache, recalculatingStaticImage,
                   updateSignalCompressor, forcedStaticUpdateExtraUpdateRect,
                   forceSignals, spontaneousJobs, job, parentState,
                   imageLocked, envQuiet, queryResult, proxy, router, storage,
                   layer, sigInternalForceConnected>>

\* From here on the callers make no further call: what is pending runs.
Quiesce ==
    /\ ~envQuiet
    /\ envQuiet' = TRUE
    /\ UNCHANGED <<params, cache, recalculatingStaticImage,
                   updateSignalCompressor, forcedStaticUpdateExtraUpdateRect,
                   forceSignals, spontaneousJobs, job, parentState,
                   imageLocked, externalFrameActive, queryResult, proxy, router, storage,
                   layer, sigInternalForceConnected>>

\* The calls and steps of the mask and of its image.
Step ==
    \/ SetTransformParams
    \/ SetX
    \/ SetY
    \/ OverrideStaticCacheDevice
    \/ SlotDelayedStaticUpdate
    \/ ForceUpdateTimedNode
    \/ ThreadSafeForceStaticImageUpdate
    \/ SlotInternalForceStaticImageUpdate
    \/ DecorateRect
    \/ JobStart
    \/ JobDecorateRectBegin
    \/ JobDecorateRectEnd
    \/ JobFinish
    \/ SetParent
    \/ LockImage
    \/ UnlockImage
    \/ SetExternalFrameActive

Next == Step

Spec == Init /\ [][Next]_vars

\* With extra update rects passed to threadSafeForceStaticImageUpdate.
RectNext ==
    \/ Step
    \/ ThreadSafeForceStaticImageUpdateRect

RectSpec == Init /\ [][RectNext]_vars

\* The accumulated extra update rect alone: the calls that add to it, the
\* calls and slots that start a regeneration job, the job, and the parent
\* and lock that startAsyncRegenerationJob looks at.  The params stay as
\* constructed.
AccumNext ==
    \/ ThreadSafeForceStaticImageUpdateRect
    \/ ThreadSafeForceStaticImageUpdate
    \/ SlotInternalForceStaticImageUpdate
    \/ SlotDelayedStaticUpdate
    \/ ForceUpdateTimedNode
    \/ JobStart
    \/ JobDecorateRectBegin
    \/ JobDecorateRectEnd
    \/ JobFinish
    \/ SetParent
    \/ LockImage
    \/ UnlockImage

AccumSpec == Init /\ [][AccumNext]_vars

\* A mask built by KisTransformMask(image, name), or by the copy constructor
\* (clone()) from a mask that is not regenerating: Private(rhs) takes the
\* params of rhs and a cache, an accumulated rect and a compressor of its
\* own, and the copy constructor connects the compressor's timeout only.
CloneInit ==
    /\ sigInternalForceConnected \in BOOLEAN
    /\ params \in (IF sigInternalForceConnected THEN {0} ELSE ParamsSet)
    /\ staticCacheValid = FALSE
    /\ staticCacheIsOverridden = FALSE
    /\ paramsForStaticImage = NULL
    /\ staticCacheDevice = NoDevice
    /\ recalculatingStaticImage = FALSE
    /\ updateSignalCompressor = FALSE
    /\ forcedStaticUpdateExtraUpdateRect = EmptyRect
    /\ forceSignals = 0
    /\ spontaneousJobs = <<>>
    /\ jobPc = "idle"
    /\ jobParams = NULL
    /\ parentState = "NoParent"
    /\ imageLocked = FALSE
    /\ externalFrameActive = FALSE
    /\ envQuiet = FALSE
    /\ queryResult = NoResult
    /\ ProxyInit
    /\ RouterInit
    /\ StorageInit
    /\ LayerInit

CloneSpec == CloneInit /\ [][AccumNext]_vars

\* The timer fires, the event loop delivers queued signals, the scheduler
\* runs submitted jobs to completion, and a locked image is unlocked again.
Fairness ==
    /\ WF_vars(SlotDelayedStaticUpdate)
    /\ WF_vars(SlotInternalForceStaticImageUpdate)
    /\ WF_vars(JobStart)
    /\ WF_vars(JobDecorateRectBegin)
    /\ WF_vars(JobDecorateRectEnd)
    /\ WF_vars(JobFinish)
    /\ WF_vars(UnlockImage)

\* The behaviours in which the callers may stop calling.
LiveNext ==
    \/ Step
    \/ Quiesce

LiveSpec == Init /\ [][LiveNext]_vars /\ Fairness

RectLiveNext ==
    \/ Step
    \/ ThreadSafeForceStaticImageUpdateRect
    \/ Quiesce

RectLiveSpec == Init /\ [][RectLiveNext]_vars /\ Fairness

\* ------------------------------------------------- isCacheValid alone
\* The states of the cache: a cache that is not valid names no params.
QueryInit ==
    /\ params \in ParamsSet
    /\ staticCacheValid \in BOOLEAN
    /\ staticCacheIsOverridden \in BOOLEAN
    /\ paramsForStaticImage \in ParamsSet \cup {NULL}
    /\ (~staticCacheValid => paramsForStaticImage = NULL)
    /\ staticCacheDevice = [id |-> 1, cs |-> originalColorSpace]
    /\ recalculatingStaticImage = FALSE
    /\ updateSignalCompressor = FALSE
    /\ forcedStaticUpdateExtraUpdateRect = EmptyRect
    /\ forceSignals = 0
    /\ spontaneousJobs = <<>>
    /\ jobPc = "idle"
    /\ jobParams = NULL
    /\ parentState = "InImage"
    /\ imageLocked = FALSE
    /\ externalFrameActive = FALSE
    /\ envQuiet = FALSE
    /\ queryResult = NoResult
    /\ ProxyInit
    /\ RouterInit
    /\ StorageInit
    /\ LayerInit
    /\ sigInternalForceConnected = TRUE

\* A call of StaticCacheStorage::isCacheValid(currentParams).
IsCacheValidCall ==
    /\ \E currentParams \in ParamsSet :
           queryResult' = <<currentParams, isCacheValid(currentParams)>>
    /\ UNCHANGED <<params, cache, recalculatingStaticImage,
                   updateSignalCompressor, forcedStaticUpdateExtraUpdateRect,
                   forceSignals, spontaneousJobs, job, parentState,
                   imageLocked, externalFrameActive, envQuiet, proxy, router, storage,
                   layer, sigInternalForceConnected>>

QueryNext == IsCacheValidCall

QuerySpec == QueryInit /\ [][QueryNext]_vars

\* ------------------------------------------------- the storage's lock
\* StaticCacheStorage with one thread in its writing functions and another
\* in its reading functions, statement by statement.  setDeviceCacheValid and
\* overrideStaticCacheDevice are called on an allocated cache; the devices a
\* storage allocates are counted up to MaxDevices.
StorageCall ==
    /\ writer = WriterIdle
    /\ \E call \in StorageCalls :
         /\ call.fn \in {"setDeviceCacheValid", "overrideStaticCacheDevice"}
                => staticCacheDevice # NoDevice
         /\ call.fn = "lazyAllocateStaticCache"
                => staticCacheDevice.id < MaxDevices
         /\ writer' = call
    /\ UNCHANGED <<mask, envQuiet, proxy, router, m_lock, reader>>

\* The statement after the writer's present one.
nextStatement ==
    CASE writer.fn = "setDeviceCacheValid" ->
           CASE writer.pc = "lock" -> "paramsForStaticImage"
             [] writer.pc = "paramsForStaticImage" -> "staticCacheValid"
             [] OTHER -> "unlock"
      [] writer.fn = "overrideStaticCacheDevice" ->
           CASE writer.pc = "lock" -> "paramsForStaticImage"
             [] writer.pc = "paramsForStaticImage" -> "staticCacheValid"
             [] writer.pc = "staticCacheValid" -> "staticCacheIsOverridden"
             [] OTHER -> "unlock"
      [] writer.fn = "invalidateDeviceCache" ->
           CASE writer.pc = "staticCacheValid" -> "paramsForStaticImage"
             [] OTHER -> "idle"
      [] OTHER ->
           CASE writer.pc = "lock" -> "staticCacheDevice"
             [] OTHER -> "unlock"

\* The writer goes on to its next statement, or returns.
writerAdvances ==
    writer' = IF nextStatement = "idle" THEN WriterIdle
              ELSE [writer EXCEPT !.pc = nextStatement]

\* QWriteLocker l(&m_lock)
WriterLock ==
    /\ writer.pc = "lock"
    /\ m_lock = "unlocked"
    /\ m_lock' = "write"
    /\ writerAdvances
    /\ UNCHANGED <<mask, envQuiet, proxy, router, reader>>

\* paramsForStaticImage = currentParams in setDeviceCacheValid,
\* paramsForStaticImage.clear() in the two others.
WriteParamsForStaticImage ==
    /\ writer.pc = "paramsForStaticImage"
    /\ paramsForStaticImage' = writer.currentParams
    /\ writerAdvances
    /\ UNCHANGED <<params, staticCacheValid, staticCacheIsOverridden,
                   staticCacheDevice, recalculatingStaticImage,
                   updateSignalCompressor, forcedStaticUpdateExtraUpdateRect,
                   forceSignals, spontaneousJobs, job, env, proxy, router,
                   m_lock, reader, layer, sigInternalForceConnected>>

\* staticCacheValid = true, = bool(device), = false
WriteStaticCacheValid ==
    /\ writer.pc = "staticCacheValid"
    /\ staticCacheValid' =
           CASE writer.fn = "setDeviceCacheValid" -> TRUE
             [] writer.fn = "overrideStaticCacheDevice" -> writer.device
             [] OTHER -> FALSE
    /\ writerAdvances
    /\ UNCHANGED <<params, paramsForStaticImage, staticCacheIsOverridden,
                   staticCacheDevice, recalculatingStaticImage,
                   updateSignalCompressor, forcedStaticUpdateExtraUpdateRect,
                   forceSignals, spontaneousJobs, job, env, proxy, router,
                   m_lock, reader, layer, sigInternalForceConnected>>

\* staticCacheIsOverridden = bool(device)
WriteStaticCacheIsOverridden ==
    /\ writer.pc = "staticCacheIsOverridden"
    /\ staticCacheIsOverridden' = writer.device
    /\ writerAdvances
    /\ UNCHANGED <<params, paramsForStaticImage, staticCacheValid,
                   staticCacheDevice, recalculatingStaticImage,
                   updateSignalCompressor, forcedStaticUpdateExtraUpdateRect,
                   forceSignals, spontaneousJobs, job, env, proxy, router,
                   m_lock, reader, layer, sigInternalForceConnected>>

\* The body of lazyAllocateStaticCache.
WriteStaticCacheDevice ==
    /\ writer.pc = "staticCacheDevice"
    /\ lazyAllocateStaticCache(writer.cs)
    /\ writerAdvances
    /\ UNCHANGED <<params, recalculatingStaticImage,
                   updateSignalCompressor, forcedStaticUpdateExtraUpdateRect,
                   forceSignals, spontaneousJobs, job, env, proxy, router,
                   m_lock, reader, layer, sigInternalForceConnected>>

\* The QWriteLocker goes out of scope and the function returns.
WriterUnlock ==
    /\ writer.pc = "unlock"
    /\ m_lock' = "unlocked"
    /\ writer' = WriterIdle
    /\ UNCHANGED <<mask, envQuiet, proxy, router, reader>>

\* QReadLocker l(&m_lock) in isCacheValid or isCacheOverridden; the members
\* are read while the thread is inside.
ReaderLock ==
    /\ reader = "idle"
    /\ m_lock = "unlocked"
    /\ m_lock' = "read"
    /\ \E fn \in {"isCacheValid", "isCacheOverridden"} : reader' = fn
    /\ UNCHANGED <<mask, envQuiet, proxy, router, writer>>

\* The QReadLocker goes out of scope and the function returns.
ReaderUnlock ==
    /\ reader # "idle"
    /\ m_lock' = "unlocked"
    /\ reader' = "idle"
    /\ UNCHANGED <<mask, envQuiet, proxy, router, writer>>

StorageNext ==
    \/ StorageCall
    \/ WriterLock
    \/ WriteParamsForStaticImage
    \/ WriteStaticCacheValid
    \/ WriteStaticCacheIsOverridden
    \/ WriteStaticCacheDevice
    \/ WriterUnlock
    \/ ReaderLock
    \/ ReaderUnlock

StorageSpec == Init /\ [][StorageNext]_vars

\* ------------------------------------------------- decorateRect's output
\* A call of decorateRect(src, dst, rc, maskPos, flags) by a render pass,
\* with what it filled dst with.
decorateRectCall(maskPos, noTransformMaskUpdates) ==
    /\ ~envQuiet
    /\ jobPc = "idle"
    /\ decorateRect(maskPos, noTransformMaskUpdates)
    /\ queryResult' =
           <<"decorateRect", maskPos, noTransformMaskUpdates,
             decorateRectRenders(maskPos, noTransformMaskUpdates)>>
    /\ UNCHANGED <<params, recalculatingStaticImage,
                   forcedStaticUpdateExtraUpdateRect, forceSignals,
                   spontaneousJobs, parentState, imageLocked,
                   externalFrameActive, envQuiet, proxy, router, storage,
                   layer, sigInternalForceConnected>>

DecorateRectCall ==
    \E maskPos \in PositionToFilthy, noTransformMaskUpdates \in BOOLEAN :
        decorateRectCall(maskPos, noTransformMaskUpdates)

\* The render passes with the calls that change, override and regenerate
\* the cache.
RenderNext ==
    \/ SetTransformParams
    \/ OverrideStaticCacheDevice
    \/ SlotDelayedStaticUpdate
    \/ ForceUpdateTimedNode
    \/ DecorateRectCall
    \/ JobStart
    \/ JobDecorateRectBegin
    \/ JobDecorateRectEnd
    \/ JobFinish
    \/ SetParent
    \/ SetExternalFrameActive

RenderSpec == Init /\ [][RenderNext]_vars

\* ------------------------------------------------- the parent's projection
\* The parent layer is painted on or erased between two jobs: its exact
\* bounds, and with them their change rect, become another rect.
SetParentChangeRect ==
    /\ jobPc = "idle"
    /\ \E rc \in AllRects : rc # parentChangeRect /\ parentChangeRect' = rc
    /\ UNCHANGED <<params, cache, recalculatingStaticImage,
                   updateSignalCompressor, forcedStaticUpdateExtraUpdateRect,
                   forceSignals, spontaneousJobs, job, env, proxy, router,
                   storage, projection, sigInternalForceConnected>>

\* The regeneration jobs of a mask whose parent layer changes its content.
ProjectionNext ==
    \/ SetTransformParams
    \/ SlotDelayedStaticUpdate
    \/ JobStart
    \/ JobDecorateRectBegin
    \/ JobDecorateRectEnd
    \/ JobFinish
    \/ SetParent
    \/ SetParentChangeRect

ProjectionSpec == Init /\ [][ProjectionNext]_vars

\* ------------------------------------------------- changeRect, needRect
\* The rects handed in: the non-empty ones of 0..MaxPixel and empty rects,
\* QRect() among them.
PixelRects == {rc \in (0..MaxPixel) \X (0..MaxPixel) : rc[1] <= rc[2]}
EmptyRects == {EmptyRect, <<0, -1>>, <<MaxPixel, 0>>}
InputRects == PixelRects \cup EmptyRects

\* KisTransformMaskParamsInterface::finalAffineTransform on one axis:
\* x -> m11 * x + dx.  The params as constructed are the identity.
finalAffineTransform(p) ==
    [m11 |-> IF p % 4 = 1 THEN 2 ELSE IF p % 4 = 2 THEN -1 ELSE 1,
     dx |-> p]

\* QRectF::toAlignedRect of the interval from a / d to b / d (d > 0):
\* from the floor of the one end to the ceiling of the other.
toAlignedRect(a, b, d) == <<a \div d, -((-b) \div d) - 1>>

\* KisSafeTransform::mapRectForward: the rect's QRectF, from its left to one
\* past its right, mapped by the matrix.  The clamp to the limiting rect is
\* for matrices near a singular one; the matrices of one axis are not, and
\* the rect is mapped as it is.
mapRectForward(t, limitingRect, interestRect, rc) ==
    IF t.m11 > 0
    THEN toAlignedRect(t.m11 * rc[1] + t.dx, t.m11 * (rc[2] + 1) + t.dx, 1)
    ELSE toAlignedRect(t.m11 * (rc[2] + 1) + t.dx, t.m11 * rc[1] + t.dx, 1)

\* KisSafeTransform::mapRectBackward: the same by the inverted matrix,
\* x -> (x - dx) / m11.
mapRectBackward(t, limitingRect, interestRect, rc) ==
    IF t.m11 > 0
    THEN toAlignedRect(rc[1] - t.dx, rc[2] + 1 - t.dx, t.m11)
    ELSE toAlignedRect(t.dx - (rc[2] + 1), t.dx - rc[1], -t.m11)

\* parentNode->original()->extent(), or QRect(0,0,888,888)
parentInterestRect == IF parentNode THEN <<0, MaxPixel>> ELSE <<0, 887>>

\* KisTransformMaskParamsInterface::nonAffineChangeRect: the transform's own
\* mapping, here a margin around the rect.
nonAffineChangeRect(p, rc) == kisGrowRect(rc, 1)

\* KisTransformMaskParamsInterface::nonAffineNeedRect: the transform's own
\* mapping, here the rect together with the source's extent.
nonAffineNeedRect(p, rc, srcBounds) == united(rc, srcBounds)

\* changeRect without the test of an empty rect.
changeRect_transformsEmpty(rect, pos) ==
    IF isAffine(params)
    THEN mapRectForward(finalAffineTransform(params),
                        blowRect(parentBounds), parentInterestRect, rect)
    ELSE nonAffineChangeRect(params, rect)

\* KisTransformMask::changeRect
changeRect(rect, pos) ==
    IF isEmpty(rect) THEN rect
    ELSE IF isAffine(params)
    THEN mapRectForward(finalAffineTransform(params),
                        blowRect(parentBounds), parentInterestRect, rect)
    ELSE nonAffineChangeRect(params, rect)

\* needRect that maps the rect forward, as changeRect does.
needRect_mapsForward(rect, pos) ==
    IF isEmpty(rect) THEN rect
    ELSE IF isAffine(params)
    THEN kisGrowRect(mapRectForward(finalAffineTransform(params),
                                    blowRect(parentBounds),
                                    parentInterestRect, rect), 1)
    ELSE nonAffineNeedRect(params, rect, parentInterestRect)

\* KisTransformMask::needRect
needRect(rect, pos) ==
    IF isEmpty(rect) THEN rect
    ELSE IF isAffine(params)
    THEN kisGrowRect(mapRectBackward(finalAffineTransform(params),
                                     blowRect(parentBounds),
                                     parentInterestRect, rect), 1)
    ELSE nonAffineNeedRect(params, rect, parentInterestRect)

\* A mask with any params, in or out of a layer stack.
GeometryInit ==
    /\ params \in ParamsSet
    /\ staticCacheValid = FALSE
    /\ staticCacheIsOverridden = FALSE
    /\ paramsForStaticImage = NULL
    /\ staticCacheDevice = NoDevice
    /\ recalculatingStaticImage = FALSE
    /\ updateSignalCompressor = FALSE
    /\ forcedStaticUpdateExtraUpdateRect = EmptyRect
    /\ forceSignals = 0
    /\ spontaneousJobs = <<>>
    /\ jobPc = "idle"
    /\ jobParams = NULL
    /\ parentState \in ParentStates
    /\ imageLocked = FALSE
    /\ externalFrameActive = FALSE
    /\ envQuiet = FALSE
    /\ queryResult = NoResult
    /\ ProxyInit
    /\ RouterInit
    /\ StorageInit
    /\ LayerInit
    /\ sigInternalForceConnected = TRUE

\* A call of changeRect(rect, pos).
ChangeRectCall ==
    /\ \E rect \in InputRects, pos \in PositionToFilthy :
           queryResult' = <<"changeRect", rect, pos, changeRect(rect, pos)>>
    /\ UNCHANGED <<params, cache, recalculatingStaticImage,
                   updateSignalCompressor, forcedStaticUpdateExtraUpdateRect,
                   forceSignals, spontaneousJobs, job, parentState,
                   imageLocked, externalFrameActive, envQuiet, proxy, router, storage,
                   layer, sigInternalForceConnected>>

\* A call of needRect(rect, pos).
NeedRectCall ==
    /\ \E rect \in InputRects, pos \in PositionToFilthy :
           queryResult' = <<"needRect", rect, pos, needRect(rect, pos)>>
    /\ UNCHANGED <<params, cache, recalculatingStaticImage,
                   updateSignalCompressor, forcedStaticUpdateExtraUpdateRect,
                   forceSignals, spontaneousJobs, job, parentState,
                   imageLocked, externalFrameActive, envQuiet, proxy, router, storage,
                   layer, sigInternalForceConnected>>

\* A call of needRect on what changeRect(rect, pos) returned.
NeedRectOfChangeRectCall ==
    /\ \E rect \in InputRects, pos \in PositionToFilthy :
           queryResult' = <<"needRect(changeRect)", rect, pos,
                            needRect(changeRect(rect, pos), pos)>>
    /\ UNCHANGED <<params, cache, recalculatingStaticImage,
                   updateSignalCompressor, forcedStaticUpdateExtraUpdateRect,
                   forceSignals, spontaneousJobs, job, parentState,
                   imageLocked, externalFrameActive, envQuiet, proxy, router, storage,
                   layer, sigInternalForceConnected>>

GeometryNext ==
    \/ ChangeRectCall
    \/ NeedRectCall
    \/ NeedRectOfChangeRectCall

GeometrySpec == GeometryInit /\ [][GeometryNext]_vars

\* The calls of changeRect and needRect on a mask that is moved in and out
\* of layer stacks between them.
PurityNext ==
    \/ ChangeRectCall
    \/ NeedRectCall
    \/ SetParent

PuritySpec == GeometryInit /\ [][PurityNext]_vars

\* ------------------------------------------------- the update proxy
\* KisSignalCompressor::start: the countdown starts again from the full
\* delay, whether the timer was running or not.
compressorStart == updatesCompressor' = DelayTicks

\* The compressor's timer has run out and its timeout() is due.
compressorTimedOut == updatesCompressor = 0

\* notifySettingsChanged that starts the compressor only when its timer is
\* not running.
notifySettingsChanged_keepsCountdown ==
    IF updatesBlocked # 0
    THEN /\ numUpdatesWhileBlocked < MaxSuppressed
         /\ numUpdatesWhileBlocked' = numUpdatesWhileBlocked + 1
         /\ emitted' = <<>>
         /\ UNCHANGED <<updatesBlocked, updatesCompressor, sinceNotify,
                        windowNotifies>>
    ELSE /\ emitted' = <<sigSettingsChangedUncompressedEarlyWarning,
                         sigSettingsChangedUncompressed>>
         /\ IF updatesCompressor = TimerIdle
            THEN compressorStart
            ELSE UNCHANGED updatesCompressor
         /\ sinceNotify' = 0
         /\ windowNotifies' = IF updatesCompressor = TimerIdle THEN 1
                              ELSE Min(windowNotifies + 1, MaxNotify)
         /\ UNCHANGED <<updatesBlocked, numUpdatesWhileBlocked>>

\* notifySettingsChanged that emits sigSettingsChanged itself as well.
notifySettingsChanged_emitsTerminal ==
    IF updatesBlocked # 0
    THEN /\ numUpdatesWhileBlocked < MaxSuppressed
         /\ numUpdatesWhileBlocked' = numUpdatesWhileBlocked + 1
         /\ emitted' = <<>>
         /\ UNCHANGED <<updatesBlocked, updatesCompressor, sinceNotify,
                        windowNotifies>>
    ELSE /\ emitted' = <<sigSettingsChangedUncompressedEarlyWarning,
                         sigSettingsChangedUncompressed, sigSettingsChanged>>
         /\ compressorStart
         /\ sinceNotify' = 0
         /\ windowNotifies' = IF updatesCompressor = TimerIdle THEN 1
                              ELSE Min(windowNotifies + 1, MaxNotify)
         /\ UNCHANGED <<updatesBlocked, numUpdatesWhileBlocked>>

\* notifySettingsChanged that starts the compressor while postponed, too.
notifySettingsChanged_startsWhileBlocked ==
    IF updatesBlocked # 0
    THEN /\ numUpdatesWhileBlocked < MaxSuppressed
         /\ numUpdatesWhileBlocked' = numUpdatesWhileBlocked + 1
         /\ emitted' = <<>>
         /\ compressorStart
         /\ sinceNotify' = 0
         /\ UNCHANGED <<updatesBlocked, windowNotifies>>
    ELSE /\ emitted' = <<sigSettingsChangedUncompressedEarlyWarning,
                         sigSettingsChangedUncompressed>>
         /\ compressorStart
         /\ sinceNotify' = 0
         /\ windowNotifies' = IF updatesCompressor = TimerIdle THEN 1
                              ELSE Min(windowNotifies + 1, MaxNotify)
         /\ UNCHANGED <<updatesBlocked, numUpdatesWhileBlocked>>

\* KisPaintOpPresetUpdateProxy::notifySettingsChanged
notifySettingsChanged ==
    IF updatesBlocked # 0
    THEN /\ numUpdatesWhileBlocked < MaxSuppressed
         /\ numUpdatesWhileBlocked' = numUpdatesWhileBlocked + 1
         /\ emitted' = <<>>
         /\ UNCHANGED <<updatesBlocked, updatesCompressor, sinceNotify,
                        windowNotifies>>
    ELSE /\ emitted' = <<sigSettingsChangedUncompressedEarlyWarning,
                         sigSettingsChangedUncompressed>>
         /\ compressorStart
         /\ sinceNotify' = 0
         /\ windowNotifies' = IF updatesCompressor = TimerIdle THEN 1
                              ELSE Min(windowNotifies + 1, MaxNotify)
         /\ UNCHANGED <<updatesBlocked, numUpdatesWhileBlocked>>

NotifySettingsChanged ==
    /\ ~envQuiet
    /\ notifySettingsChanged
    /\ lastCall' = "notifySettingsChanged"
    /\ UNCHANGED <<mask, envQuiet, router, storage>>

\* KisPaintOpPresetUpdateProxy::postponeSettingsChanges
postponeSettingsChanges ==
    /\ updatesBlocked < MaxBlocked
    /\ updatesBlocked' = updatesBlocked + 1
    /\ emitted' = <<>>
    /\ UNCHANGED <<numUpdatesWhileBlocked, updatesCompressor, sinceNotify,
                   windowNotifies>>

PostponeSettingsChanges ==
    /\ ~envQuiet
    /\ postponeSettingsChanges
    /\ lastCall' = "postponeSettingsChanges"
    /\ UNCHANGED <<mask, envQuiet, router, storage>>

\* unpostponeSettingsChanges that flushes at every call.
unpostponeSettingsChanges_flushesAlways ==
    /\ updatesBlocked' = updatesBlocked - 1
    /\ IF numUpdatesWhileBlocked # 0
       THEN /\ numUpdatesWhileBlocked' = 0
            /\ emitted' = <<sigSettingsChangedUncompressedEarlyWarning,
                            sigSettingsChangedUncompressed,
                            sigSettingsChanged>>
       ELSE /\ emitted' = <<>>
            /\ UNCHANGED numUpdatesWhileBlocked
    /\ UNCHANGED <<updatesCompressor, sinceNotify, windowNotifies>>

\* unpostponeSettingsChanges that emits one set of signals for every
\* suppressed update.
unpostponeSettingsChanges_replaysAll ==
    /\ updatesBlocked' = updatesBlocked - 1
    /\ IF updatesBlocked' = 0 /\ numUpdatesWhileBlocked # 0
       THEN /\ numUpdatesWhileBlocked' = 0
            /\ emitted' =
                   IF numUpdatesWhileBlocked = 1
                   THEN <<sigSettingsChangedUncompressedEarlyWarning,
                          sigSettingsChangedUncompressed,
                          sigSettingsChanged>>
                   ELSE <<sigSettingsChangedUncompressedEarlyWarning,
                          sigSettingsChangedUncompressed,
                          sigSettingsChanged,
                          sigSettingsChangedUncompressedEarlyWarning,
                          sigSettingsChangedUncompressed,
                          sigSettingsChanged>>
       ELSE /\ emitted' = <<>>
            /\ UNCHANGED numUpdatesWhileBlocked
    /\ UNCHANGED <<updatesCompressor, sinceNotify, windowNotifies>>

\* unpostponeSettingsChanges that does not look at numUpdatesWhileBlocked.
unpostponeSettingsChanges_flushesUnasked ==
    /\ updatesBlocked' = updatesBlocked - 1
    /\ IF updatesBlocked' = 0
       THEN /\ numUpdatesWhileBlocked' = 0
            /\ emitted' = <<sigSettingsChangedUncompressedEarlyWarning,
                            sigSettingsChangedUncompressed,
                            sigSettingsChanged>>
       ELSE /\ emitted' = <<>>
            /\ UNCHANGED numUpdatesWhileBlocked
    /\ UNCHANGED <<updatesCompressor, sinceNotify, windowNotifies>>

\* unpostponeSettingsChanges that flushes without resetting the count.
unpostponeSettingsChanges_keepsCount ==
    /\ updatesBlocked' = updatesBlocked - 1
    /\ IF updatesBlocked' = 0 /\ numUpdatesWhileBlocked # 0
       THEN emitted' = <<sigSettingsChangedUncompressedEarlyWarning,
                         sigSettingsChangedUncompressed,
                         sigSettingsChanged>>
       ELSE emitted' = <<>>
    /\ UNCHANGED <<numUpdatesWhileBlocked, updatesCompressor, sinceNotify,
                   windowNotifies>>

\* KisPaintOpPresetUpdateProxy::unpostponeSettingsChanges
unpostponeSettingsChanges ==
    /\ updatesBlocked' = updatesBlocked - 1
    /\ IF updatesBlocked' = 0 /\ numUpdatesWhileBlocked # 0
       THEN /\ numUpdatesWhileBlocked' = 0
            /\ emitted' = <<sigSettingsChangedUncompressedEarlyWarning,
                            sigSettingsChangedUncompressed,
                            sigSettingsChanged>>
       ELSE /\ emitted' = <<>>
            /\ UNCHANGED numUpdatesWhileBlocked
    /\ UNCHANGED <<updatesCompressor, sinceNotify, windowNotifies>>

\* The callers match every unpostponeSettingsChanges with an earlier
\* postponeSettingsChanges.
UnpostponeSettingsChanges ==
    /\ updatesBlocked > 0
    /\ unpostponeSettingsChanges
    /\ lastCall' = "unpostponeSettingsChanges"
    /\ UNCHANGED <<mask, envQuiet, router, storage>>

\* Time passes on the compressor's running timer.
Tick ==
    /\ updatesCompressor > 0
    /\ updatesCompressor' = updatesCompressor - 1
    /\ sinceNotify' = Min(sinceNotify + 1, DelayTicks)
    /\ lastCall' = "tick"
    /\ emitted' = <<>>
    /\ UNCHANGED <<updatesBlocked, numUpdatesWhileBlocked, windowNotifies>>
    /\ UNCHANGED <<mask, envQuiet, router, storage>>

\* slotDeliverSettingsChanged that emits while postponed, too.
slotDeliverSettingsChanged_ignoresBlocked ==
    /\ emitted' = <<sigSettingsChanged>>
    /\ UNCHANGED <<updatesBlocked, numUpdatesWhileBlocked>>

\* slotDeliverSettingsChanged that drops a timeout while postponed.
slotDeliverSettingsChanged_dropsWhileBlocked ==
    IF updatesBlocked # 0
    THEN /\ emitted' = <<>>
         /\ UNCHANGED <<updatesBlocked, numUpdatesWhileBlocked>>
    ELSE /\ emitted' = <<sigSettingsChanged>>
         /\ UNCHANGED <<updatesBlocked, numUpdatesWhileBlocked>>

\* KisPaintOpPresetUpdateProxy::slotDeliverSettingsChanged
slotDeliverSettingsChanged ==
    IF updatesBlocked # 0
    THEN /\ numUpdatesWhileBlocked < MaxSuppressed
         /\ numUpdatesWhileBlocked' = numUpdatesWhileBlocked + 1
         /\ emitted' = <<>>
         /\ UNCHANGED updatesBlocked
    ELSE /\ emitted' = <<sigSettingsChanged>>
         /\ UNCHANGED <<updatesBlocked, numUpdatesWhileBlocked>>

\* updatesCompressor's timeout() -> slotDeliverSettingsChanged
SlotDeliverSettingsChanged ==
    /\ compressorTimedOut
    /\ updatesCompressor' = TimerIdle
    /\ slotDeliverSettingsChanged
    /\ lastCall' = "slotDeliverSettingsChanged"
    /\ sinceNotify' = 0
    /\ UNCHANGED windowNotifies
    /\ UNCHANGED <<mask, envQuiet, router, storage>>

\* The callers of the proxy stop calling notifySettingsChanged and
\* postponeSettingsChanges.
ProxyQuiesce ==
    /\ ~envQuiet
    /\ envQuiet' = TRUE
    /\ UNCHANGED proxy
    /\ UNCHANGED <<mask, router, storage>>

ProxyNext ==
    \/ NotifySettingsChanged
    \/ PostponeSettingsChanges
    \/ UnpostponeSettingsChanges
    \/ Tick
    \/ SlotDeliverSettingsChanged

ProxySpec == Init /\ [][ProxyNext]_vars

\* Time passes, the timeout is delivered, and a postponement ends.
ProxyFairness ==
    /\ WF_vars(Tick)
    /\ WF_vars(SlotDeliverSettingsChanged)
    /\ WF_vars(UnpostponeSettingsChanges)

ProxyLiveNext ==
    \/ ProxyNext
    \/ ProxyQuiesce

ProxyLiveSpec == Init /\ [][ProxyLiveNext]_vars /\ ProxyFairness

\* ------------------------------------------------- the signal router
\* What handling a notification adds to `delivered` and to the event queue.
NoEffect == [log |-> <<>>, queue |-> <<>>]

\* A router signal connected to the image's with Qt::DirectConnection.
directToImage(signal, n) == <<signal, n>>

\* A router signal connected to the image's with Qt::QueuedConnection.
queuedToImage(signal, n) == [call |-> "imageSignal", signal |-> signal, n |-> n]

\* slotNotification without the test of the reselection request's payload.
slotNotification_emitsEmptyReselection(type, n) ==
    IF ~imageAlive THEN NoEffect
    ELSE CASE type.id = LayersChangedSignal ->
                [log |-> << <<invalidateAllFrames, n>>,
                            directToImage(sigLayersChangedAsync, n) >>,
                 queue |-> <<>>]
           [] type.id = ModifiedWithoutUndoSignal ->
                [log |-> << directToImage(sigImageModifiedWithoutUndo, n) >>,
                 queue |-> <<>>]
           [] type.id = SizeChangedSignal ->
                [log |-> << <<invalidateAllFrames, n>>,
                            directToImage(sigSizeChanged, n) >>,
                 queue |-> <<>>]
           [] type.id = ProfileChangedSignal ->
                [log |-> << <<invalidateAllFrames, n>> >>,
                 queue |-> << queuedToImage(sigProfileChanged, n) >>]
           [] type.id = ColorSpaceChangedSignal ->
                [log |-> << <<invalidateAllFrames, n>> >>,
                 queue |-> << queuedToImage(sigColorSpaceChanged, n) >>]
           [] type.id = ResolutionChangedSignal ->
                [log |-> << <<invalidateAllFrames, n>>,
                            directToImage(sigResolutionChanged, n) >>,
                 queue |-> <<>>]
           [] type.id = NodeReselectionRequestSignal ->
                [log |-> << directToImage(sigRequestNodeReselection, n) >>,
                 queue |-> <<>>]

\* slotNotification that emits sigSizeChanged before it invalidates the
\* frames.
slotNotification_emitsBeforeInvalidate(type, n) ==
    IF ~imageAlive THEN NoEffect
    ELSE CASE type.id = LayersChangedSignal ->
                [log |-> << <<invalidateAllFrames, n>>,
                            directToImage(sigLayersChangedAsync, n) >>,
                 queue |-> <<>>]
           [] type.id = ModifiedWithoutUndoSignal ->
                [log |-> << directToImage(sigImageModifiedWithoutUndo, n) >>,
                 queue |-> <<>>]
           [] type.id = SizeChangedSignal ->
                [log |-> << directToImage(sigSizeChanged, n),
                            <<invalidateAllFrames, n>> >>,
                 queue |-> <<>>]
           [] type.id = ProfileChangedSignal ->
                [log |-> << <<invalidateAllFrames, n>> >>,
                 queue |-> << queuedToImage(sigProfileChanged, n) >>]
           [] type.id = ColorSpaceChangedSignal ->
                [log |-> << <<invalidateAllFrames, n>> >>,
                 queue |-> << queuedToImage(sigColorSpaceChanged, n) >>]
           [] type.id = ResolutionChangedSignal ->
                [log |-> << <<invalidateAllFrames, n>>,
                            directToImage(sigResolutionChanged, n) >>,
                 queue |-> <<>>]
           [] type.id = NodeReselectionRequestSignal ->
                IF type.node \/ type.nodes
                THEN [log |-> << directToImage(sigRequestNodeReselection, n) >>,
                      queue |-> <<>>]
                ELSE NoEffect

\* slotNotification without the test of the image.
slotNotification_ignoresDeadImage(type, n) ==
         CASE type.id = LayersChangedSignal ->
                [log |-> << <<invalidateAllFrames, n>>,
                            directToImage(sigLayersChangedAsync, n) >>,
                 queue |-> <<>>]
           [] type.id = ModifiedWithoutUndoSignal ->
                [log |-> << directToImage(sigImageModifiedWithoutUndo, n) >>,
                 queue |-> <<>>]
           [] type.id = SizeChangedSignal ->
                [log |-> << <<invalidateAllFrames, n>>,
                            directToImage(sigSizeChanged, n) >>,
                 queue |-> <<>>]
           [] type.id = ProfileChangedSignal ->
                [log |-> << <<invalidateAllFrames, n>> >>,
                 queue |-> << queuedToImage(sigProfileChanged, n) >>]
           [] type.id = ColorSpaceChangedSignal ->
                [log |-> << <<invalidateAllFrames, n>> >>,
                 queue |-> << queuedToImage(sigColorSpaceChanged, n) >>]
           [] type.id = ResolutionChangedSignal ->
                [log |-> << <<invalidateAllFrames, n>>,
                            directToImage(sigResolutionChanged, n) >>,
                 queue |-> <<>>]
           [] type.id = NodeReselectionRequestSignal ->
                IF type.node \/ type.nodes
                THEN [log |-> << directToImage(sigRequestNodeReselection, n) >>,
                      queue |-> <<>>]
                ELSE NoEffect

\* KisImageSignalRouter::slotNotification for notification number n.
slotNotification(type, n) ==
    IF ~imageAlive THEN NoEffect
    ELSE CASE type.id = LayersChangedSignal ->
                [log |-> << <<invalidateAllFrames, n>>,
                            directToImage(sigLayersChangedAsync, n) >>,
                 queue |-> <<>>]
           [] type.id = ModifiedWithoutUndoSignal ->
                [log |-> << directToImage(sigImageModifiedWithoutUndo, n) >>,
                 queue |-> <<>>]
           [] type.id = SizeChangedSignal ->
                [log |-> << <<invalidateAllFrames, n>>,
                            directToImage(sigSizeChanged, n) >>,
                 queue |-> <<>>]
           [] type.id = ProfileChangedSignal ->
                [log |-> << <<invalidateAllFrames, n>> >>,
                 queue |-> << queuedToImage(sigProfileChanged, n) >>]
           [] type.id = ColorSpaceChangedSignal ->
                [log |-> << <<invalidateAllFrames, n>> >>,
                 queue |-> << queuedToImage(sigColorSpaceChanged, n) >>]
           [] type.id = ResolutionChangedSignal ->
                [log |-> << <<invalidateAllFrames, n>>,
                            directToImage(sigResolutionChanged, n) >>,
                 queue |-> <<>>]
           [] type.id = NodeReselectionRequestSignal ->
                IF type.node \/ type.nodes
                THEN [log |-> << directToImage(sigRequestNodeReselection, n) >>,
                      queue |-> <<>>]
                ELSE NoEffect

\* Q_EMIT sigNotification(type): the connection to slotNotification is a
\* Qt::AutoConnection, a direct call when the emitting thread is the
\* router's own and a queued one otherwise.
sigNotification(type, thread, n) ==
    IF thread = "owner"
    THEN slotNotification(type, n)
    ELSE [log |-> <<>>,
          queue |-> << [call |-> "slotNotification", type |-> type,
                        n |-> n] >>]

\* emitNotification that emits sigNotification for every kind.
emitNotification_allThroughSignal(type, thread, n) ==
    sigNotification(type, thread, n)

\* KisImageSignalRouter::emitNotification
emitNotification(type, thread, n) ==
    IF type.id = LayersChangedSignal \/
       type.id = NodeReselectionRequestSignal
    THEN slotNotification(type, n)
    ELSE sigNotification(type, thread, n)

\* A call of emitNotification(type) from a thread.
emitNotificationCall(type, thread) ==
    /\ emitCount < MaxEmit
    /\ LET e == emitNotification(type, thread, emitCount + 1)
       IN  /\ delivered' = delivered \o e.log
           /\ eventQueue' = eventQueue \o e.queue
    /\ emitCount' = emitCount + 1
    /\ UNCHANGED imageAlive
    /\ UNCHANGED <<mask, envQuiet, proxy, storage>>

EmitNotification ==
    \E type \in SignalTypes, thread \in Threads :
        emitNotificationCall(type, thread)

\* KisImageSignalRouter::emitNotifications with a vector of two.
emitNotificationsCall(first, second, thread) ==
    /\ emitCount + 2 <= MaxEmit
    /\ LET e1 == emitNotification(first, thread, emitCount + 1)
           e2 == emitNotification(second, thread, emitCount + 2)
       IN  /\ delivered' = delivered \o e1.log \o e2.log
           /\ eventQueue' = eventQueue \o e1.queue \o e2.queue
    /\ emitCount' = emitCount + 2
    /\ UNCHANGED imageAlive
    /\ UNCHANGED <<mask, envQuiet, proxy, storage>>

EmitNotifications ==
    \E first \in SignalTypes, second \in SignalTypes, thread \in Threads :
        emitNotificationsCall(first, second, thread)

\* The owning thread's event loop runs the call at the head of its queue.
\* A queued signal of a router that has lost its image reaches nobody.
ProcessEvent ==
    /\ eventQueue # <<>>
    /\ LET head == Head(eventQueue)
       IN  IF head.call = "slotNotification"
           THEN LET e == slotNotification(head.type, head.n)
                IN  /\ delivered' = delivered \o e.log
                    /\ eventQueue' = Tail(eventQueue) \o e.queue
           ELSE /\ delivered' =
                       IF imageAlive
                       THEN Append(delivered, <<head.signal, head.n>>)
                       ELSE delivered
                /\ eventQueue' = Tail(eventQueue)
    /\ UNCHANGED <<imageAlive, emitCount>>
    /\ UNCHANGED <<mask, envQuiet, proxy, storage>>

\* The last strong reference to the image goes away.
ImageDestroyed ==
    /\ imageAlive
    /\ imageAlive' = FALSE
    /\ UNCHANGED <<eventQueue, delivered, emitCount>>
    /\ UNCHANGED <<mask, envQuiet, proxy, storage>>

RouterNext ==
    \/ EmitNotification
    \/ EmitNotifications
    \/ ProcessEvent
    \/ ImageDestroyed

RouterSpec == Init /\ [][RouterNext]_vars

\* ------------------------------------------------- properties
\* The step in which the running job's decorateRect executes
\* setDeviceCacheValid.
JobMarksCacheValid == jobPc = "transforming" /\ jobPc' = "finishing"

C3_OverriddenImpliesValid == staticCacheIsOverridden => staticCacheValid

\* C4: a valid cache that names no params is an overridden one (the
\* assertion of isCacheValid).
C4_ValidWithoutParamsIsOverride ==
    (staticCacheValid /\ paramsForStaticImage = NULL)
        => staticCacheIsOverridden

\* C7: the cache is never at once overridden and valid for params.
C7_NotValidForParamsWhileOverridden ==
    ~(staticCacheIsOverridden /\ paramsForStaticImage # NULL)

\* C5: isCacheValid(params) answers true exactly when valid is set and
\* validFor is null or equal to params, and the call leaves the cache and
\* the params as they were.
C5_IsCacheValidAnswer ==
    /\ [](queryResult # NoResult =>
            (queryResult[2] <=>
                (staticCacheValid /\
                 (paramsForStaticImage = NULL \/
                  paramsForStaticImage = queryResult[1]))))
    /\ [][IsCacheValidCall => UNCHANGED <<cache, params>>]_vars

\* C5: the call answered true for params other than the mask's, for a cache
\* that names no params.
C5_Witness ==
    /\ queryResult # NoResult
    /\ queryResult[2]
    /\ queryResult[1] # params
    /\ paramsForStaticImage = NULL

\* C6: on an allocated cache overrideStaticCacheDevice(device) leaves
\* overridden = valid = (device is not null) and validFor null; after
\* overrideStaticCacheDevice(null) the cache is neither valid nor overridden.
C6_OverrideSetsFlags ==
    [][ \A device \in BOOLEAN :
          (staticCacheDevice # NoDevice /\
           overrideStaticCacheDevice(device) /\
           UNCHANGED <<params, job>>)
          => /\ staticCacheIsOverridden' = device
             /\ staticCacheValid' = device
             /\ paramsForStaticImage' = NULL
             /\ (~device => ~staticImageCacheIsValid' /\ ~isCacheOverridden')
      ]_vars

\* C6: an override is installed on a cache a job had made valid.
C6_Witness ==
    /\ staticCacheDevice # NoDevice
    /\ staticCacheIsOverridden
    /\ staticCacheValid
    /\ paramsForStaticImage = NULL

\* The calls of invalidateDeviceCache: setTransformParams, setX, setY,
\* forceStartAsyncRegenerationJob and decorateRect.
invalidateDeviceCacheCalled ==
    \/ SetTransformParams
    \/ SetX
    \/ SetY
    \/ (ForceUpdateTimedNode /\
        (hasPendingTimedUpdates \/ ~isCacheValid(params)))
    \/ SlotInternalForceStaticImageUpdate
    \/ (DecorateRect /\ ~isHidden(params) /\ ~externalFrameActive /\
        \E maskPos \in PositionToFilthy, noTransformMaskUpdates \in BOOLEAN :
            decorateRectTriggersUpdate(maskPos, noTransformMaskUpdates))

\* C8: invalidateDeviceCache is not called on an overridden cache.
C8_NoInvalidateWhileOverridden ==
    [][invalidateDeviceCacheCalled => ~staticCacheIsOverridden]_vars

\* C9: the job marks the cache valid for the params its decorateRect read
\* when it started, and if the params were changed after that the cache is
\* not valid for the current params once the job has marked it.
C9_ValidForParamsAtJobStart ==
    [][JobMarksCacheValid =>
         /\ paramsForStaticImage' = jobParams
         /\ (jobParams # params' => ~staticImageCacheIsValid')]_vars

\* The callers have stopped, the mask is in the stack of a layer of the image
\* that has a projection of its own, and the compressor's timer is running.
RegenerationArmed ==
    envQuiet /\ parentState = "InImage" /\ updateSignalCompressor

\* A regeneration has made the cache valid for the current params.
RegeneratedForParams ==
    staticCacheValid /\ paramsForStaticImage = params

startAsyncRegenerationJobCalled ==
    \/ SlotDelayedStaticUpdate
    \/ SlotInternalForceStaticImageUpdate
    \/ (ForceUpdateTimedNode /\
        (hasPendingTimedUpdates \/ ~isCacheValid(params)))

\* C10: startAsyncRegenerationJob on a locked image submits no job, leaves
\* the accumulated rect and leaves the compressor's timer running; with the
\* timer running on a locked image and no job waiting, a job is eventually
\* submitted once the callers have stopped locking the image.
C10_LockedImageRetries ==
    /\ [][(startAsyncRegenerationJobCalled /\ parentLayerHasImage /\
           imageLocked)
          => /\ spontaneousJobs' = spontaneousJobs
             /\ forcedStaticUpdateExtraUpdateRect' =
                    forcedStaticUpdateExtraUpdateRect
             /\ updateSignalCompressor']_vars
    /\ (RegenerationArmed /\ imageLocked /\ spontaneousJobs = <<>>)
           ~> (spontaneousJobs # <<>>)

\* C10: a forced update ran on a locked image: the timer is running, the
\* rect is still accumulated and no job was submitted.
C10_Witness ==
    /\ imageLocked
    /\ parentState = "InImage"
    /\ updateSignalCompressor
    /\ ~isEmpty(forcedStaticUpdateExtraUpdateRect)
    /\ forceSignals = 0
    /\ spontaneousJobs = <<>>
    /\ jobPc = "idle"

\* C11: a non-empty rect passed to threadSafeForceStaticImageUpdate is in
\* the accumulator after the call, together with what was accumulated; the
\* accumulator loses area only in a step that submits a job, the job is
\* handed exactly the accumulated rect, and the accumulator is empty after
\* that step, so the next job is not handed the same rect again.
C11_NoExtraRectLost ==
    [][ /\ \A r \in Rects :
              threadSafeForceStaticImageUpdate(r)
              => /\ contains(forcedStaticUpdateExtraUpdateRect', r)
                 /\ contains(forcedStaticUpdateExtraUpdateRect',
                             forcedStaticUpdateExtraUpdateRect)
        /\ ~contains(forcedStaticUpdateExtraUpdateRect',
                     forcedStaticUpdateExtraUpdateRect)
              => Len(spontaneousJobs') = Len(spontaneousJobs) + 1
        /\ Len(spontaneousJobs') = Len(spontaneousJobs) + 1
              => /\ spontaneousJobs' =
                        Append(spontaneousJobs,
                               forcedStaticUpdateExtraUpdateRect)
                 /\ forcedStaticUpdateExtraUpdateRect' = EmptyRect
      ]_vars

\* C11: a job was handed the accumulated rect <<0, 1>> and a rect added
\* after the job was submitted is accumulated for the next job.
C11_Witness ==
    /\ spontaneousJobs # <<>>
    /\ spontaneousJobs[1] = <<0, 1>>
    /\ forcedStaticUpdateExtraUpdateRect = <<1, 1>>

\* ------------------------------------------------- the update proxy
\* x is one of the elements of the sequence.
InSeq(x, seq) == \E i \in 1..Len(seq) : seq[i] = x

\* The three signals of a flush, in the order of their emission.
FlushSignals == <<sigSettingsChangedUncompressedEarlyWarning,
                  sigSettingsChangedUncompressed, sigSettingsChanged>>

C14_FlushOnUnpostpone ==
    [][ (UnpostponeSettingsChanges /\ updatesBlocked = 1 /\
         numUpdatesWhileBlocked >= 1)
          => /\ emitted' = FlushSignals
             /\ numUpdatesWhileBlocked' = 0
      ]_vars

\* C14: a flush of updates that notifySettingsChanged suppressed (the timer
\* was never started).
C14_Witness ==
    /\ lastCall = "unpostponeSettingsChanges"
    /\ emitted = FlushSignals
    /\ updatesBlocked = 0
    /\ numUpdatesWhileBlocked = 0
    /\ updatesCompressor = TimerIdle
    /\ windowNotifies = 0

\* C15 as claimed: the unpostponeSettingsChanges that ends the postponement
\* emits the three signals whatever the number of suppressed updates, zero
\* included.
C15_FlushRegardlessOfN ==
    [][ (UnpostponeSettingsChanges /\ updatesBlocked = 1)
          => emitted' = FlushSignals ]_vars

\* C15: the unpostponeSettingsChanges that ends the postponement emits the
\* three signals once when numUpdatesWhileBlocked is not zero, whatever its
\* value, and nothing when it is zero.
C15_FlushIffSuppressed ==
    [][ (UnpostponeSettingsChanges /\ updatesBlocked = 1)
          => emitted' = IF numUpdatesWhileBlocked = 0 THEN <<>>
                        ELSE FlushSignals ]_vars

\* C15: postponeSettingsChanges and unpostponeSettingsChanges with nothing
\* between them: no signal.
C15_Witness ==
    /\ lastCall = "unpostponeSettingsChanges"
    /\ emitted = <<>>
    /\ updatesBlocked = 0
    /\ numUpdatesWhileBlocked = 0
    /\ updatesCompressor = TimerIdle
    /\ windowNotifies = 0

\* C16: notifySettingsChanged while postponed adds one to
\* numUpdatesWhileBlocked, emits nothing and leaves the timer; otherwise it
\* emits the early warning then the uncompressed signal, starts the timer
\* and leaves numUpdatesWhileBlocked.
C16_NotifyEmitsIffNotPostponed ==
    [][ NotifySettingsChanged =>
          IF updatesBlocked > 0
          THEN /\ emitted' = <<>>
               /\ numUpdatesWhileBlocked' = numUpdatesWhileBlocked + 1
               /\ updatesCompressor' = updatesCompressor
          ELSE /\ emitted' = <<sigSettingsChangedUncompressedEarlyWarning,
                               sigSettingsChangedUncompressed>>
               /\ updatesCompressor' = DelayTicks
               /\ numUpdatesWhileBlocked' = numUpdatesWhileBlocked
      ]_vars

\* C16: a call while postponed was counted and started no timer.
C16_Witness ==
    /\ lastCall = "notifySettingsChanged"
    /\ updatesBlocked = 1
    /\ numUpdatesWhileBlocked = 1
    /\ emitted = <<>>
    /\ updatesCompressor = TimerIdle

\* C17: an unpostponeSettingsChanges that leaves updatesBlocked above zero
\* emits nothing and keeps numUpdatesWhileBlocked, notifySettingsChanged
\* stays suppressed while updatesBlocked is above zero, and the call that
\* brings updatesBlocked to zero flushes what was suppressed.
C17_NestedPostpone ==
    [][ /\ (UnpostponeSettingsChanges /\ updatesBlocked > 1)
              => /\ emitted' = <<>>
                 /\ numUpdatesWhileBlocked' = numUpdatesWhileBlocked
                 /\ updatesBlocked' = updatesBlocked - 1
        /\ (NotifySettingsChanged /\ updatesBlocked > 0) => emitted' = <<>>
        /\ (UnpostponeSettingsChanges /\ updatesBlocked = 1 /\
            numUpdatesWhileBlocked > 0)
              => InSeq(sigSettingsChanged, emitted')
      ]_vars

\* C17: the first of two unpostponeSettingsChanges calls, with updates
\* suppressed: nothing emitted, the count kept.
C17_Witness ==
    /\ lastCall = "unpostponeSettingsChanges"
    /\ updatesBlocked = 1
    /\ numUpdatesWhileBlocked = 2
    /\ emitted = <<>>

\* C18: sigSettingsChanged is emitted only by slotDeliverSettingsChanged
\* while not postponed or by the unpostponeSettingsChanges that brings
\* updatesBlocked to zero, and updatesBlocked is zero when it is emitted.
C18_TerminalOnlyWhenNotPostponed ==
    [][ InSeq(sigSettingsChanged, emitted') =>
          /\ updatesBlocked' = 0
          /\ \/ (SlotDeliverSettingsChanged /\ updatesBlocked = 0)
             \/ (UnpostponeSettingsChanges /\ updatesBlocked = 1)
      ]_vars

\* C18: a timeout that arrived while postponed was counted, and the
\* terminal signal came from the unpostponeSettingsChanges.
C18_Witness ==
    /\ lastCall = "unpostponeSettingsChanges"
    /\ emitted = FlushSignals
    /\ updatesBlocked = 0
    /\ updatesCompressor = TimerIdle
    /\ windowNotifies = 1

\* ------------------------------------------------- the signal router
\* The kinds emitNotification hands to slotNotification itself.
IsSynchronousKind(type) ==
    type.id = LayersChangedSignal \/ type.id = NodeReselectionRequestSignal

SynchronousTypes == {type \in SignalTypes : IsSynchronousKind(type)}

\* What the image is to have done and emitted for notification n of a
\* synchronous kind when emitNotification returns.
SynchronousDelivery(type, n) ==
    IF type.id = LayersChangedSignal
    THEN << <<invalidateAllFrames, n>>, <<sigLayersChangedAsync, n>> >>
    ELSE IF type.node \/ type.nodes
    THEN << <<sigRequestNodeReselection, n>> >>
    ELSE <<>>

C20_OtherKindsNeverInsideCall ==
    [][ \A type \in SignalTypes, thread \in Threads :
          (emitNotificationCall(type, thread) /\ ~IsSynchronousKind(type))
          => delivered' = delivered ]_vars

\* The image's signals for the kinds that emitNotification does not hand to
\* slotNotification itself.
QueuedKindSignals == {sigImageModifiedWithoutUndo, sigSizeChanged,
                      sigProfileChanged, sigColorSpaceChanged,
                      sigResolutionChanged}

\* C21: the image's signals for the queued kinds are emitted in the order
\* in which their notifications were handed to the router: no two of them
\* are delivered in reversed order.
C21_QueuedKindsFifo ==
    \A i \in DOMAIN delivered, j \in DOMAIN delivered :
        (i < j /\ delivered[i][1] \in QueuedKindSignals /\
         delivered[j][1] \in QueuedKindSignals)
        => delivered[i][2] < delivered[j][2]

\* A reselection request with a null node and an empty list.
EmptyReselection ==
    [id |-> NodeReselectionRequestSignal, node |-> FALSE, nodes |-> FALSE]

\* C22: emitNotification of a NodeReselectionRequest with a null node and
\* an empty list makes the image do and emit nothing and queues nothing;
\* with a node or a non-empty list, and the image alive, it makes the image
\* emit sigRequestNodeReselection once and nothing else; and the image
\* emits sigRequestNodeReselection at most once for a notification.
C22_EmptyReselectionSuppressed ==
    /\ [][ \A type \in SignalTypes, thread \in Threads :
             (type.id = NodeReselectionRequestSignal /\
              emitCount' = emitCount + 1 /\
              emitNotificationCall(type, thread))
             => /\ eventQueue' = eventQueue
                /\ delivered' =
                       IF type = EmptyReselection \/ ~imageAlive
                       THEN delivered
                       ELSE Append(delivered,
                                   <<sigRequestNodeReselection,
                                     emitCount + 1>>)
         ]_vars
    /\ [](\A i \in DOMAIN delivered, j \in DOMAIN delivered :
            (delivered[i] = delivered[j] /\
             delivered[i][1] = sigRequestNodeReselection) => i = j)

\* C22: the first request was empty and left no trace, the second one was
\* delivered.
C22_Witness ==
    /\ imageAlive
    /\ emitCount = 2
    /\ eventQueue = <<>>
    /\ delivered = << <<sigRequestNodeReselection, 2>> >>

\* The image's signals of the kinds that invalidate the frames.
InvalidatingSignals == {sigLayersChangedAsync, sigSizeChanged,
                        sigProfileChanged, sigColorSpaceChanged,
                        sigResolutionChanged}

\* C23: a signal of LayersChanged, SizeChanged, ProfileChanged,
\* ColorSpaceChanged or ResolutionChanged is emitted after the one call of
\* invalidateAllFrames made for its notification, and no call of
\* invalidateAllFrames is made for a notification whose signal is
\* sigImageModifiedWithoutUndo or sigRequestNodeReselection.
C23_InvalidateOnceBeforeSignal ==
    \A j \in DOMAIN delivered :
        LET n == delivered[j][2]
            calls == {i \in DOMAIN delivered :
                         delivered[i] = <<invalidateAllFrames, n>>}
        IN  /\ delivered[j][1] \in InvalidatingSignals
                => Cardinality(calls) = 1 /\ \A i \in calls : i < j
            /\ delivered[j][1] \in {sigImageModifiedWithoutUndo,
                                    sigRequestNodeReselection}
                => calls = {}
            /\ delivered[j][1] = invalidateAllFrames
                => Cardinality(calls) = 1

\* C23: SizeChanged invalidated and emitted, ModifiedWithoutUndo emitted
\* without invalidating, ProfileChanged invalidated and emitted later from
\* the queue.
C23_Witness ==
    delivered = << <<invalidateAllFrames, 1>>, <<sigSizeChanged, 1>>,
                   <<sigImageModifiedWithoutUndo, 2>>,
                   <<invalidateAllFrames, 3>>, <<sigProfileChanged, 3>> >>

\* C24: changeRect and needRect return an empty rect as it was handed in,
\* for all params, with and without a parent, at every position.
C24_EmptyRectUnchanged ==
    (queryResult # NoResult /\ queryResult[1] \in {"changeRect", "needRect"}
        /\ isEmpty(queryResult[2]))
    => queryResult[4] = queryResult[2]

\* C24: needRect was called with QRect() on a mask without a parent whose
\* params are affine and not the identity.
C24_Witness ==
    /\ queryResult = <<"needRect", <<0, -1>>, N_FILTHY, <<0, -1>>>>
    /\ parentState = "NoParent"
    /\ isAffine(params)
    /\ params # 0

C26_ValidCacheIsCopied ==
    [][\A maskPos \in PositionToFilthy, noTransformMaskUpdates \in BOOLEAN :
          (/\ ~recalculatingStaticImage
           /\ isCacheValid(params)
           /\ decorateRectCall(maskPos, noTransformMaskUpdates))
          => /\ queryResult'[4] = "copyAreaOptimized"
             /\ isCacheValid(params)'
      ]_vars

\* C26: the same for params that are not hidden, with no external frame
\* active, and a call with maskPos N_BELOW_FILTHY or with the flag
\* NoTransformMaskUpdates.
C26_ValidCacheIsCopiedBelowFilthy ==
    [][\A maskPos \in PositionToFilthy, noTransformMaskUpdates \in BOOLEAN :
          (/\ ~recalculatingStaticImage
           /\ isCacheValid(params)
           /\ ~isHidden(params)
           /\ ~externalFrameActive
           /\ (maskPos = N_BELOW_FILTHY \/ noTransformMaskUpdates)
           /\ decorateRectCall(maskPos, noTransformMaskUpdates))
          => /\ queryResult'[4] = "copyAreaOptimized"
             /\ isCacheValid(params)'
      ]_vars

\* C26: a render pass below the filthy node has copied from a cache that a
\* job made valid for the current params, and the cache is still valid.
C26_Witness ==
    /\ queryResult =
           <<"decorateRect", N_BELOW_FILTHY, FALSE, "copyAreaOptimized">>
    /\ staticCacheValid
    /\ paramsForStaticImage = params
    /\ ~staticCacheIsOverridden
    /\ jobPc = "idle"

\* C27: valid, overridden and validFor change only while the write lock is
\* held, and no thread is inside isCacheValid or isCacheOverridden while
\* another is at a write of one of them.
C27_MetadataWrittenUnderWriteLock ==
    /\ [][<<staticCacheValid, staticCacheIsOverridden,
            paramsForStaticImage>>' #
          <<staticCacheValid, staticCacheIsOverridden, paramsForStaticImage>>
          => m_lock = "write"]_vars
    /\ [](reader # "idle" => writer.pc \notin MetadataMembers)

\* C28: a device once allocated stays the storage's device.
C28_DevicePointerStable ==
    [][staticCacheDevice # NoDevice
       => staticCacheDevice' = staticCacheDevice]_vars

\* C28: an allocated device is replaced only by the body of
\* lazyAllocateStaticCache(cs), and only when its colour space is not cs.
C28_DeviceReplacedOnlyForOtherColorSpace ==
    [][(staticCacheDevice # NoDevice /\
        staticCacheDevice' # staticCacheDevice)
       => /\ writer.fn = "lazyAllocateStaticCache"
          /\ writer.pc = "staticCacheDevice"
          /\ writer.cs # staticCacheDevice.cs
          /\ staticCacheDevice'.cs = writer.cs
      ]_vars

\* C28: the second device of the storage, with an override installed on
\* it.
C28_Witness ==
    /\ staticCacheDevice.id = 2
    /\ staticCacheIsOverridden
    /\ writer = WriterIdle

\* C29: lazyAllocateStaticCache(cs) leaves a device of colour space cs; the
\* device is another one than before exactly when there was none or its
\* colour space was not cs; valid, overridden and validFor stay as they
\* were.
C29_LazyAllocateIdempotent ==
    [][(writer.fn = "lazyAllocateStaticCache" /\
        writer.pc = "staticCacheDevice" /\ writer'.pc = "unlock")
       => /\ UNCHANGED <<staticCacheValid, staticCacheIsOverridden,
                         paramsForStaticImage>>
          /\ staticCacheDevice' \in Devices
          /\ staticCacheDevice'.cs = writer.cs
          /\ (staticCacheDevice' # staticCacheDevice) <=>
                 (staticCacheDevice = NoDevice \/
                  staticCacheDevice.cs # writer.cs)
      ]_vars

\* C29: on a cache that is valid for its params, and so was allocated
\* before, a call with the device's colour space has run its body and the
\* device is the first one still.
C29_Witness ==
    /\ writer.fn = "lazyAllocateStaticCache"
    /\ writer.pc = "unlock"
    /\ staticCacheDevice.id = 1
    /\ staticCacheDevice.cs = writer.cs
    /\ staticCacheValid
    /\ paramsForStaticImage # NULL

\* C30: startAsyncRegenerationJob on a mask whose parent is missing or in
\* no image (the timer's slot calls nothing else) leaves the cache,
\* recalculatingStaticImage, the submitted jobs and the accumulated rect as
\* they were and the compressor stopped; recalculateStaticImage on a mask
\* without a parent leaves the cache, recalculatingStaticImage, the
\* accumulated rect and the compressor as they were and the job is over;
\* and while the parent is missing or in no image no job is submitted and
\* the accumulated rect is not drained.
C30_NoParentIsNoOp ==
    [][/\ (~parentLayerHasImage /\ SlotDelayedStaticUpdate)
          => /\ UNCHANGED <<cache, recalculatingStaticImage, spontaneousJobs,
                            forcedStaticUpdateExtraUpdateRect>>
             /\ ~updateSignalCompressor'
       /\ (parentState = "NoParent" /\ JobStart)
          => /\ UNCHANGED <<cache, recalculatingStaticImage,
                            forcedStaticUpdateExtraUpdateRect,
                            updateSignalCompressor>>
             /\ jobPc' = "idle"
             /\ spontaneousJobs' = Tail(spontaneousJobs)
       /\ ~parentLayerHasImage
          => /\ Len(spontaneousJobs') <= Len(spontaneousJobs)
             /\ contains(forcedStaticUpdateExtraUpdateRect',
                         forcedStaticUpdateExtraUpdateRect)
      ]_vars

\* C30: the queued force signal has been delivered and the timer is not
\* running, yet the accumulated rect is still there and no job is waiting or
\* running: the last call of startAsyncRegenerationJob returned at the test
\* of the parent.
C30_Witness ==
    /\ parentState = "NoParent"
    /\ forcedStaticUpdateExtraUpdateRect # EmptyRect
    /\ forceSignals = 0
    /\ ~updateSignalCompressor
    /\ spontaneousJobs = <<>>
    /\ jobPc = "idle"

\* ---- the parent's projection in a regeneration job
\* C31: the clear of a regeneration job leaves the pixels of the parent's
\* projection outside the requested rect as they were.
C31_ClearOnlyInsideRequestedRect ==
    [][(jobPc = "idle" /\ jobPc' = "projecting") =>
           (projection \ pixelsOf(requestedRect)) \subseteq projection']_vars

\* C31, amended: the clear of a regeneration job empties the whole
\* projection of the parent, the pixels outside the requested rect too.
C31_ClearEmptiesProjection ==
    [][(jobPc = "idle" /\ jobPc' = "projecting") => projection' = {}]_vars

\* C31: a job has cleared a projection that an earlier job had rendered,
\* and the requested rect is now smaller than the parent's bounds.
C31_Witness ==
    /\ jobPc = "projecting"
    /\ staticCacheValid
    /\ projection = {}
    /\ requestedRect = <<0, 0>>

\* ---- a regeneration job and decorateRect
\* C32: while recalculateStaticImage runs, recalculatingStaticImage is set
\* and no decorateRect call, whatever its position and flags, passes the
\* test that invalidates the cache and starts the compressor; the job's own
\* decorateRect neither starts the compressor nor makes a valid cache
\* invalid; and recalculatingStaticImage is false whenever no job runs.
C32_JobDoesNotRetriggerItself ==
    /\ [](jobPc # "idle" => recalculatingStaticImage)
    /\ [](recalculatingStaticImage =>
            \A maskPos \in PositionToFilthy, flag \in BOOLEAN :
                ~decorateRectTriggersUpdate(maskPos, flag))
    /\ [](jobPc = "idle" => ~recalculatingStaticImage)
    /\ [][(JobDecorateRectBegin \/ JobDecorateRectEnd) =>
             /\ updateSignalCompressor' = updateSignalCompressor
             /\ (staticCacheValid => staticCacheValid')]_vars

\* C32: the job is inside decorateRect with a cache that is not overridden
\* and not valid for the params, and the compressor is not running.
C32_Witness ==
    /\ jobPc = "transforming"
    /\ recalculatingStaticImage
    /\ ~isCacheOverridden
    /\ ~isCacheValid(params)
    /\ ~updateSignalCompressor

\* ---- setTransformParams beside a regeneration job
\* A regeneration job has been submitted and has not returned yet.
JobPendingOrRunning == jobPc # "idle" \/ spontaneousJobs # <<>>

\* The callers have stopped with the mask in the stack of a layer of the
\* image, a job pending or running and the compressor's timer running.
RearmedBesideJob ==
    /\ envQuiet
    /\ parentState \in {"InImage", "InImageNoProjection"}
    /\ JobPendingOrRunning
    /\ updateSignalCompressor

\* C33: a setTransformParams call made while a job is pending or running
\* leaves the cache invalidated and the compressor running, takes no job
\* from the queue and does not end the running job; a running job reaches
\* its return; and once the callers have stopped, the compressor's timeout
\* submits a further job.
C33_RunningJobIsNotAborted ==
    /\ [][((SetTransformParams \/ SetX \/ SetY) /\ JobPendingOrRunning) =>
             /\ updateSignalCompressor'
             /\ paramsForStaticImage' = NULL
             /\ spontaneousJobs' = spontaneousJobs
             /\ recalculatingStaticImage' = recalculatingStaticImage
             /\ (jobPc # "idle" => jobPc' # "idle")]_vars
    /\ ((jobPc # "idle") ~> (jobPc = "idle"))
    /\ (RearmedBesideJob ~>
            (spontaneousJobs # <<>> /\ ~updateSignalCompressor))

\* C33: the params were changed while the job was inside decorateRect: the
\* cache is invalid, the timer runs and the job goes on.
C33_Witness ==
    /\ jobPc = "transforming"
    /\ jobParams # params
    /\ ~staticCacheValid
    /\ updateSignalCompressor
    /\ envQuiet

\* ---- the update proxy's counters
\* C34: with every unpostponeSettingsChanges matched by an earlier
\* postponeSettingsChanges, updatesBlocked is never negative, and between
\* calls numUpdatesWhileBlocked is above zero only while updatesBlocked is.
C34_SuppressedOnlyWhilePostponed ==
    /\ updatesBlocked >= 0
    /\ (numUpdatesWhileBlocked > 0 => updatesBlocked > 0)

\* C34: a timeout arrived inside a postponement and was counted on top of
\* a suppressed call.
C34_Witness ==
    /\ lastCall = "slotDeliverSettingsChanged"
    /\ updatesBlocked = 1
    /\ numUpdatesWhileBlocked = 2

\* C40: a timeout that arrives while postponed emits nothing and adds one
\* to numUpdatesWhileBlocked; and once the callers have stopped calling
\* notifySettingsChanged and postponeSettingsChanges, a running timer leads
\* to a sigSettingsChanged emitted with no postponement left, and a
\* suppressed update leads to the flush of unpostponeSettingsChanges.
C40_PostponedTimeoutIsNotLost ==
    /\ [][(SlotDeliverSettingsChanged /\ updatesBlocked > 0) =>
             /\ emitted' = <<>>
             /\ numUpdatesWhileBlocked' = numUpdatesWhileBlocked + 1]_vars
    /\ ((envQuiet /\ updatesCompressor # TimerIdle)
            ~> (InSeq(sigSettingsChanged, emitted) /\ updatesBlocked = 0))
    /\ ((envQuiet /\ numUpdatesWhileBlocked > 0)
            ~> (lastCall = "unpostponeSettingsChanges" /\
                emitted = FlushSignals))

\* C40: the callers have stopped inside a postponement, and the timeout of
\* the one call made before it has been counted.
C40_Witness ==
    /\ envQuiet
    /\ lastCall = "slotDeliverSettingsChanged"
    /\ updatesBlocked > 0
    /\ numUpdatesWhileBlocked = 1
    /\ windowNotifies = 1
    /\ emitted = <<>>

\* ---- the router without its image
\* The queued emissions of image signals in a queue.
QueuedImageSignals(q) == {i \in 1..Len(q) : q[i].call = "imageSignal"}

\* C35: with the image gone, a notification that is handled, emitted now or
\* taken from the queue, makes the image do and emit nothing and queues no
\* signal for it.
C35_NoImageNoSignal ==
    [][~imageAlive =>
          /\ delivered' = delivered
          /\ Cardinality(QueuedImageSignals(eventQueue')) <=
                 Cardinality(QueuedImageSignals(eventQueue))]_vars

\* C35: the image is gone and the two notifications handed to the router
\* have been handled, with nothing done and nothing left in the queue.
C35_Witness ==
    /\ ~imageAlive
    /\ emitCount = 2
    /\ eventQueue = <<>>
    /\ delivered = <<>>

C37_ForceReachesSlot ==
    [][((ThreadSafeForceStaticImageUpdateRect \/
         ThreadSafeForceStaticImageUpdate) /\
        parentState = "InImage" /\ ~imageLocked) => forceSignals' > 0]_vars

\* ---- what decorateRect does to the cache
\* The case in which decorateRect is said to ask for a new static image.
UpdateIsDue(maskPos, noTransformMaskUpdates) ==
    /\ ~isHidden(params)
    /\ ~externalFrameActive
    /\ ~staticCacheIsOverridden
    /\ ~recalculatingStaticImage
    /\ ~noTransformMaskUpdates
    /\ \/ maskPos \in {N_FILTHY, N_ABOVE_FILTHY}
       \/ ~isCacheValid(params)

\* The cache is invalidated and the compressor's timer runs.
InvalidatedAndArmed ==
    /\ ~staticCacheValid'
    /\ paramsForStaticImage' = NULL
    /\ staticCacheIsOverridden' = staticCacheIsOverridden
    /\ updateSignalCompressor'

\* valid, overridden, validFor and the compressor are as they were.
CacheAndCompressorUntouched ==
    UNCHANGED <<staticCacheValid, staticCacheIsOverridden,
                paramsForStaticImage, updateSignalCompressor>>

\* C38 as claimed: a decorateRect call, of a render pass or of the
\* regeneration job, invalidates the cache and starts the compressor when
\* an update is due and leaves valid, overridden, validFor and the
\* compressor untouched in every other case.
C38_InvalidatesIffDue ==
    [][ /\ DecorateRectCall =>
              IF UpdateIsDue(queryResult'[2], queryResult'[3])
              THEN InvalidatedAndArmed
              ELSE CacheAndCompressorUntouched
        /\ (JobDecorateRectBegin \/ JobDecorateRectEnd) =>
              CacheAndCompressorUntouched
      ]_vars

\* C38, amended: a decorateRect call of a render pass invalidates the cache
\* and starts the compressor when an update is due and leaves valid,
\* overridden, validFor and the compressor untouched otherwise; the call of
\* the regeneration job never invalidates and never starts the compressor,
\* and unless the params are hidden or an external frame is active it marks
\* the cache valid for the params it read.
C38_InvalidatesIffDueOutsideJob ==
    [][ /\ DecorateRectCall =>
              IF UpdateIsDue(queryResult'[2], queryResult'[3])
              THEN InvalidatedAndArmed
              ELSE CacheAndCompressorUntouched
        /\ JobDecorateRectBegin => CacheAndCompressorUntouched
        /\ JobDecorateRectEnd =>
              /\ staticCacheValid'
              /\ paramsForStaticImage' = jobParams
              /\ UNCHANGED <<staticCacheIsOverridden,
                             updateSignalCompressor>>
      ]_vars

\* C38: a render pass on the changed mask has invalidated the cache that a
\* job had allocated, and the timer runs.
C38_Witness ==
    /\ queryResult = <<"decorateRect", N_FILTHY, FALSE, "runPartialDst">>
    /\ staticCacheDevice # NoDevice
    /\ ~staticCacheValid
    /\ paramsForStaticImage = NULL
    /\ updateSignalCompressor

\* ---- forceUpdateTimedNode
\* C39: forceUpdateTimedNode changes nothing when no timed update is
\* pending and the cache is valid for the params; otherwise the cache is
\* invalidated when it returns, and with a parent in an unlocked image the
\* compressor is stopped and one job, carrying the accumulated rect, has
\* been added to the submitted ones.
C39_ForceUpdateTimedNode ==
    [][ForceUpdateTimedNode =>
          IF ~hasPendingTimedUpdates /\ isCacheValid(params)
          THEN UNCHANGED <<cache, job, updateSignalCompressor,
                           forcedStaticUpdateExtraUpdateRect,
                           spontaneousJobs>>
          ELSE /\ paramsForStaticImage' = NULL
               /\ (~staticCacheValid' \/ JobMarksCacheValid)
               /\ (parentLayerHasImage /\ ~imageLocked) =>
                      /\ ~hasPendingTimedUpdates'
                      /\ spontaneousJobs' =
                             Append(spontaneousJobs,
                                    forcedStaticUpdateExtraUpdateRect)
                      /\ forcedStaticUpdateExtraUpdateRect' = EmptyRect
      ]_vars

\* C39: a regeneration was forced on a cache that an earlier job had
\* filled: the cache is invalid, the timer is stopped and a job is
\* submitted.
C39_Witness ==
    /\ staticCacheDevice # NoDevice
    /\ ~staticCacheValid
    /\ paramsForStaticImage = NULL
    /\ ~hasPendingTimedUpdates
    /\ spontaneousJobs # <<>>
    /\ parentState = "InImage"
    /\ ~imageLocked

====
